---------------------------- MODULE Spec2Model ----------------------------
(***************************************************************************)
(* A state-machine model of the Bril reference interpreter                 *)
(* (src/bril-ts/brili.ts): heap, reference counter, tracer, instruction    *)
(* evaluator, function evaluator and program driver.                       *)
(*                                                                         *)
(* The program being interpreted is an input.  A function's code is a      *)
(* layout of Label items and instruction slots; the instruction held by a  *)
(* slot is drawn from the specification's instruction set the first time   *)
(* the cursor fetches it and stays in funcs from then on, so one layout    *)
(* stands for every program of that shape.  Messages that interpolate a    *)
(* value are kept without the interpolated part.                           *)
(* JavaScript values are tagged records; a Key carries the identity of the *)
(* object (field id) because Map<Key, number> compares keys by identity.   *)
(* An Int is IntBits wide where the interpreter's is 64 bits wide; the     *)
(* float operations are left out.                                          *)
(***************************************************************************)
EXTENDS Integers, Sequences, FiniteSets, TLC

\* F applied to the value of e, with e evaluated once
Bind(e, F(_)) == CHOOSE y \in {F(r) : r \in {e}} : TRUE

VARIABLES
  funcs,      \* prog.functions: [name, args, type, instrs], the slots
              \*          fetched so far filled in
  opts,       \* gcenabled, disablefree, tracerenabled
  stack,      \* call stack of State frames, innermost first
  heap,       \* Heap: [storage, count]
  gc,         \* GC.referenceCounts, in insertion order
  tracer,     \* Tracer
  nkeys,      \* number of Key objects constructed so far (object identity)
  out,        \* the lines written to standard output by print
  status,     \* position of the driver: running, returned, swept, done, error
  err,        \* the error thrown, if any
  last,       \* history: what the last step did
  dispatched, \* history: number of instructions handed to evalInstr
  snaps,      \* history: per frame, the frame as it was at each Speculate
              \*          not yet matched by a Commit or an Abort
  shadow,     \* history: the run of the speculative region without its
              \*          speculate, guards and commit
  mem,        \* history: sizes and bases of the allocations made, in
              \*          order; bases removed from the heap; bases a free
              \*          instruction was executed on
  trail       \* history: per frame, the last two labels the cursor crossed
              \*          (head), under those saved at each unmatched
              \*          Speculate: an Abort undoes the crossings it rolls back

vars == <<funcs, opts, stack, heap, gc, tracer, nkeys, out, status, err, last,
          dispatched, snaps, shadow, mem, trail>>

----------------------------------------------------------------------------
(* Bounds of the model *)

MaxICount == 6      \* instructions dispatched in one run
MaxAllocs == 2      \* allocations in one run
MaxKeys == 4        \* Key objects constructed in one run
MaxDepth == 2       \* call-stack depth
MaxSpecDepth == 2   \* nesting of speculate
MaxTraceICount == 24  \* instructions dispatched in a run with -tr: a trace
                      \* starts at the hotLimit-th call of a function
MaxTraceDepth == 3  \* frames on the call stack in a run with -tr
IntBits == 15       \* width of an Int: stands for the 64 of BigInt.asIntN(64, val),
                    \* which the integers of the model checker cannot hold

----------------------------------------------------------------------------
(* Values, types *)

Undefined == [t |-> "undefined"]
Null == [t |-> "null"]
NullLabel == "<null>"
NoDest == "<none>"
NoType == [k |-> "none"]

IntV(n) == [t |-> "bigint", v |-> n]
BoolV(b) == [t |-> "boolean", v |-> b]
PtrV(loc, type) == [t |-> "object", loc |-> loc, type |-> type]

TInt == [k |-> "int"]
TBool == [k |-> "bool"]
TFloat == [k |-> "float"]
TPtr(T) == [k |-> "ptr", ptr |-> T]

Key(b, o, id) == [id |-> id, base |-> b, offset |-> o]

hasLoc(val) == val.t = "object"

NoError == [thrown |-> FALSE]
error(message) == [thrown |-> TRUE, brili |-> TRUE, message |-> message]
throwString(message) == [thrown |-> TRUE, brili |-> FALSE, message |-> message]
\* a RangeError of the JavaScript engine: an Error that is no BriliError
rangeError(message) ==
  [thrown |-> TRUE, brili |-> FALSE, native |-> TRUE, message |-> message]

typeCheck(val, typ) ==
  CASE typ.k = "int" -> val.t = "bigint"
    [] typ.k = "bool" -> val.t = "boolean"
    [] typ.k = "float" -> val.t = "number"
    [] typ.k = "ptr" -> hasLoc(val)

typeKnown(typ) == typ.k \in {"int", "bool", "float", "ptr"}

RECURSIVE typeCmp(_, _)
typeCmp(lhs, rhs) ==
  IF lhs.k \in {"int", "bool", "float"}
  THEN lhs = rhs
  ELSE IF rhs.k = "ptr" THEN typeCmp(lhs.ptr, rhs.ptr) ELSE FALSE

----------------------------------------------------------------------------
(* Environments: Map<Ident, Value> as a total function, Undefined = absent *)

Idents == {"x", "y", "c", "p", "q", "r", "n", "k"}

EmptyEnv == [id \in Idents |-> Undefined]
envSet(env, id, val) == [env EXCEPT ![id] = val]
envDelete(env, id) == [env EXCEPT ![id] = Undefined]

----------------------------------------------------------------------------
(* Heap *)

EmptyHeap == [storage |-> [b \in {} |-> <<>>], count |-> 0]

\* (mutant) the heap always looks empty
isEmpty_blind(h) == h.count >= 0

isEmpty(h) == DOMAIN h.storage = {}

storageHas(h, base) == base \in DOMAIN h.storage

storageDelete(h, base) ==
  [h EXCEPT !.storage = [b \in DOMAIN h.storage \ {base} |-> h.storage[b]]]

\* new Array(amt): amt holes; slot k of the array is element k+1 here
newArray(amt) == [k \in 1..amt |-> Undefined]

\* (mutant) the base is the size of the storage Map: a freed base is
\* issued again
Heap_alloc_reuse(h, amt, id) ==
  IF amt <= 0
  THEN [err |-> error("cannot allocate entries"), heap |-> h, key |-> Undefined]
  ELSE [err |-> NoError,
        heap |-> [storage |-> [b \in DOMAIN h.storage
                                       \cup {Cardinality(DOMAIN h.storage)} |->
                                 IF b = Cardinality(DOMAIN h.storage)
                                 THEN newArray(amt)
                                 ELSE h.storage[b]],
                  count |-> h.count + 1],
        key |-> Key(Cardinality(DOMAIN h.storage), 0, id)]

Heap_alloc(h, amt, id) ==
  IF amt <= 0
  THEN [err |-> error("cannot allocate entries"), heap |-> h, key |-> Undefined]
  ELSE [err |-> NoError,
        heap |-> [storage |-> [b \in DOMAIN h.storage \cup {h.count} |->
                                 IF b = h.count THEN newArray(amt)
                                 ELSE h.storage[b]],
                  count |-> h.count + 1],
        key |-> Key(h.count, 0, id)]

Heap_free(h, key) ==
  IF storageHas(h, key.base) /\ key.offset = 0
  THEN [err |-> NoError, heap |-> storageDelete(h, key.base)]
  ELSE [err |-> error("Tried to free illegal memory location"), heap |-> h]

\* (mutant) the last slot of an allocation is out of bounds
inBounds_short(h, key) ==
  /\ storageHas(h, key.base)
  /\ Len(h.storage[key.base]) > key.offset + 1
  /\ key.offset >= 0

inBounds(h, key) ==
  /\ storageHas(h, key.base)
  /\ Len(h.storage[key.base]) > key.offset
  /\ key.offset >= 0

\* (mutant) the write goes to the first slot of the allocation
Heap_write_first(h, key, val) ==
  IF inBounds(h, key)
  THEN [err |-> NoError,
        heap |-> [h EXCEPT !.storage[key.base][1] = val]]
  ELSE [err |-> error("Uninitialized heap location and/or illegal offset"),
        heap |-> h]

Heap_write(h, key, val) ==
  IF inBounds(h, key)
  THEN [err |-> NoError,
        heap |-> [h EXCEPT !.storage[key.base][key.offset + 1] = val]]
  ELSE [err |-> error("Uninitialized heap location and/or illegal offset"),
        heap |-> h]

Heap_read(h, key) ==
  IF inBounds(h, key)
  THEN [err |-> NoError, val |-> h.storage[key.base][key.offset + 1]]
  ELSE [err |-> error("Uninitialized heap location and/or illegal offset"),
        val |-> Undefined]

----------------------------------------------------------------------------
(* GC: referenceCounts is a Map<Key, number>; a Map keeps insertion order   *)
(* and compares object keys by identity, which the id field of a Key makes  *)
(* the same as equality of the records.                                     *)

EmptyGC == <<>>

rcIndex(rc, key) ==
  IF \E k \in 1..Len(rc) : rc[k].key = key
  THEN CHOOSE k \in 1..Len(rc) : rc[k].key = key
  ELSE 0

rcHas(rc, key) == rcIndex(rc, key) # 0

rcDelete(rc, key) == SelectSeq(rc, LAMBDA e : e.key # key)

rcSet(rc, key, count) ==
  IF rcHas(rc, key)
  THEN [rc EXCEPT ![rcIndex(rc, key)].count = count]
  ELSE Append(rc, [key |-> key, count |-> count])

\* (mutant) a Key already counted stays at its count
addReference_once(rc, key) ==
  IF ~rcHas(rc, key)
  THEN rcSet(rc, key, 1)
  ELSE rc

addReference(rc, key) ==
  IF ~rcHas(rc, key)
  THEN rcSet(rc, key, 1)
  ELSE rcSet(rc, key, rc[rcIndex(rc, key)].count + 1)

removeReference(rc, key) ==
  IF rcHas(rc, key) THEN rcDelete(rc, key) ELSE rc

\* returns the map and the decremented count (Undefined when there is none)
decrementReference(rc, key) ==
  IF rcHas(rc, key)
  THEN [rc |-> rcSet(rc, key, rc[rcIndex(rc, key)].count - 1),
        count |-> IntV(rc[rcIndex(rc, key)].count - 1)]
  ELSE [rc |-> rc, count |-> Undefined]

\* pointer.loc of a value that is no Pointer is undefined
locOf(val) == IF hasLoc(val) THEN val.loc ELSE Undefined

\* the branch of handleAssignment taken when dst binds a Pointer
releaseOld(loc, h, rc, newLoc) ==
  Bind(decrementReference(rc, loc), LAMBDA d :
    IF d.count = IntV(0)
    THEN Bind(Heap_free(h, loc), LAMBDA f :
           IF f.err.thrown
           THEN [err |-> f.err, heap |-> h, gc |-> d.rc]
           ELSE [err |-> NoError, heap |-> f.heap,
                 gc |-> addReference(rcDelete(d.rc, loc), newLoc)])
    ELSE [err |-> NoError, heap |-> h, gc |-> addReference(d.rc, newLoc)])

handleAssignment(dst, env, h, rc, pointer) ==
  IF env[dst] # Undefined /\ hasLoc(env[dst])
  THEN releaseOld(env[dst].loc, h, rc, locOf(pointer))
  ELSE [err |-> NoError, heap |-> h, gc |-> addReference(rc, locOf(pointer))]

\* GC.clean: the loop over the keys, from entry k on
RECURSIVE cleanFrom(_, _, _)
cleanFrom(k, h, rc) ==
  IF k > Len(rc)
  THEN [err |-> NoError, heap |-> h, gc |-> rc]
  ELSE IF rc[k].key # Undefined
       THEN Bind(Heap_free(h, rc[k].key), LAMBDA f :
              IF f.err.thrown
              THEN [err |-> f.err, heap |-> h, gc |-> rc]
              ELSE cleanFrom(k, f.heap, rcDelete(rc, rc[k].key)))
       ELSE cleanFrom(k + 1, h, rc)

clean(h, rc) == cleanFrom(1, h, rc)

----------------------------------------------------------------------------
(* Tracer *)

hotLimit == 5

FuncNames == {"main", "f", "g"}

NewTracer ==
  [active |-> FALSE,
   nowTracing |-> "",
   functionCalls |-> [f \in FuncNames |-> 0],   \* 0: no entry
   traced |-> {},
   trace |-> [f \in {} |-> <<>>]]

addFunctionCall(tr, name) ==
  [tr EXCEPT !.functionCalls[name] = @ + 1]

\* (mutant) hot only once the count has passed the limit
isHot_after(tr, name) ==
  IF tr.functionCalls[name] # 0
  THEN tr.functionCalls[name] > hotLimit
  ELSE FALSE

isHot(tr, name) ==
  IF tr.functionCalls[name] # 0
  THEN tr.functionCalls[name] >= hotLimit
  ELSE FALSE

isTraced(tr, name) == name \in tr.traced

traceInstr(tr, instr) ==
  IF tr.nowTracing \in DOMAIN tr.trace
  THEN [tr EXCEPT !.trace[tr.nowTracing] = Append(@, instr)]
  ELSE tr

completeTracing(tr, name) == [tr EXCEPT !.traced = @ \cup {name}]

isActive(tr) == tr.active

activate(tr, name) ==
  [tr EXCEPT !.active = TRUE,
             !.nowTracing = name,
             !.trace = [f \in DOMAIN tr.trace \cup {name} |->
                          IF f = name THEN <<>> ELSE tr.trace[f]]]

deactivate(tr) ==
  [tr EXCEPT !.active = FALSE,
             !.traced = @ \cup {tr.nowTracing},
             !.nowTracing = ""]

----------------------------------------------------------------------------
(* Instructions.  Every instruction is a record with the same fields; an    *)
(* Effect operation has dest = NoDest, an absent type is NoType.            *)

NoValue == [lit |-> "none"]
NumLit(n) == [lit |-> "number", v |-> n]
BoolLit(b) == [lit |-> "boolean", v |-> b]

Instr(op, dest, type, args, labels, fns, value) ==
  [op |-> op, dest |-> dest, type |-> type, args |-> args,
   labels |-> labels, funcs |-> fns, value |-> value]

ValueOp(op, dest, type, args) == Instr(op, dest, type, args, <<>>, <<>>, NoValue)
EffectOp(op, args, labels) == Instr(op, NoDest, NoType, args, labels, <<>>, NoValue)
ConstOp(dest, type, value) == Instr("const", dest, type, <<>>, <<>>, <<>>, value)
PhiOp(dest, type, args, labels) == Instr("phi", dest, type, args, labels, <<>>, NoValue)
CallOp(dest, type, fn, args) == Instr("call", dest, type, args, <<>>, <<fn>>, NoValue)

AnyCount == -1   \* null in argCounts: any number of arguments

argCounts ==
  [add |-> 2, mul |-> 2, sub |-> 2, div |-> 2, id |-> 1, lt |-> 2, le |-> 2,
   gt |-> 2, ge |-> 2, eq |-> 2, not |-> 1, and |-> 2, or |-> 2, fadd |-> 2,
   fmul |-> 2, fsub |-> 2, fdiv |-> 2, flt |-> 2, fle |-> 2, fgt |-> 2,
   fge |-> 2, feq |-> 2, print |-> AnyCount, br |-> 1, jmp |-> 0,
   ret |-> AnyCount, nop |-> 0, call |-> AnyCount, alloc |-> 1, free |-> 1,
   store |-> 2, load |-> 1, ptradd |-> 2, phi |-> AnyCount, speculate |-> 0,
   guard |-> 1, commit |-> 0]

checkArgs(instr, count) ==
  IF Len(instr.args) # count
  THEN error("takes count argument(s); got found")
  ELSE NoError

get(env, ident) ==
  IF env[ident] = Undefined
  THEN [err |-> error("undefined variable"), val |-> Undefined]
  ELSE [err |-> NoError, val |-> env[ident]]

\* typ = NoType: the optional parameter is absent
getArgument(instr, env, index, typ) ==
  IF Len(instr.args) <= index
  THEN [err |-> error("expected at least index+1 arguments"), val |-> Undefined]
  ELSE Bind(get(env, instr.args[index + 1]), LAMBDA g :
         IF g.err.thrown THEN g
         ELSE IF typ # NoType /\ ~typeKnown(typ)
         THEN [err |-> error("unknown type"), val |-> Undefined]
         ELSE IF typ # NoType /\ ~typeCheck(g.val, typ)
         THEN [err |-> error("argument index must be a typ"), val |-> Undefined]
         ELSE g)

getPtr(instr, env, index) ==
  Bind(getArgument(instr, env, index, NoType), LAMBDA g :
    IF g.err.thrown THEN g
    ELSE IF g.val.t # "object"
    THEN [err |-> throwString("argument index must be a Pointer"),
          val |-> Undefined]
    ELSE g)

getInt(instr, env, index) == getArgument(instr, env, index, TInt)
getBool(instr, env, index) == getArgument(instr, env, index, TBool)

getLabel(instr, index) ==
  IF Len(instr.labels) <= index
  THEN [err |-> error("expecting index+1 labels"), label |-> NullLabel]
  ELSE [err |-> NoError, label |-> instr.labels[index + 1]]

getFunc(instr, index) ==
  IF Len(instr.funcs) <= index
  THEN [err |-> error("expecting index+1 functions"), func |-> ""]
  ELSE [err |-> NoError, func |-> instr.funcs[index + 1]]

\* function alloc: the Pointer of a fresh allocation
alloc(ptrType, amt, h, id) ==
  IF ptrType.k # "ptr"
  THEN [err |-> error("unspecified pointer type"), heap |-> h, ptr |-> Undefined]
  ELSE IF amt <= 0
  THEN [err |-> error("must allocate a positive amount of memory"),
        heap |-> h, ptr |-> Undefined]
  ELSE Bind(Heap_alloc(h, amt, id), LAMBDA a :
         [err |-> a.err, heap |-> a.heap,
          ptr |-> IF a.err.thrown THEN Undefined
                  ELSE PtrV(a.key, ptrType.ptr)])

(* Actions returned by evalInstr; "throw" stands for a raised exception. *)
NEXT == [action |-> "next"]
Jump(label) == [action |-> "jump", label |-> label]
End(ret) == [action |-> "end", ret |-> ret]
Abort(label) == [action |-> "abort", label |-> label]
Throw(e) == [action |-> "throw", error |-> e]

Res(state, action) == [state |-> state, action |-> action]

\* state.env.set(dest, val); return NEXT
setNext(state, dest, val) ==
  Res([state EXCEPT !.env = envSet(@, dest, val)], NEXT)

----------------------------------------------------------------------------
(* evalInstr, one operator per case of the switch.  state is the State of   *)
(* the running frame together with the objects it shares.                   *)

constValue(instr) ==
  IF instr.value.lit = "number"
  THEN IF instr.type = TFloat
       THEN [t |-> "number", v |-> instr.value.v]
       ELSE IntV(instr.value.v)      \* BigInt(Math.floor(v))
  ELSE BoolV(instr.value.v)

evalConst(instr, state) == setNext(state, instr.dest, constValue(instr))

\* state.gc.handleAssignment(dest, state, val) when -gc is on, then the
\* binding of dest
assign(instr, state, val) ==
  IF state.gcenabled
  THEN Bind(handleAssignment(instr.dest, state.env, state.heap, state.gc, val),
            LAMBDA h :
         IF h.err.thrown
         THEN Res([state EXCEPT !.heap = h.heap, !.gc = h.gc], Throw(h.err))
         ELSE setNext([state EXCEPT !.heap = h.heap, !.gc = h.gc],
                      instr.dest, val))
  ELSE setNext(state, instr.dest, val)

\* (mutant) the result is left as computed
asIntN_none(bits, val) == val

\* BigInt.asIntN(bits, val): val modulo 2^bits, as a signed value
asIntN(bits, val) == ((val + 2 ^ (bits - 1)) % (2 ^ bits)) - 2 ^ (bits - 1)

MinInt == -(2 ^ (IntBits - 1))
MaxInt == 2 ^ (IntBits - 1) - 1

\* the quotient of two BigInts: rounded towards zero
bigDiv(a, b) ==
  IF (a < 0) = (b < 0)
  THEN (IF a < 0 THEN -a ELSE a) \div (IF b < 0 THEN -b ELSE b)
  ELSE -((IF a < 0 THEN -a ELSE a) \div (IF b < 0 THEN -b ELSE b))

\* getInt(instr, env, 0) op getInt(instr, env, 1): the operands, left first
intArgs(instr, state) ==
  Bind(getInt(instr, state.env, 0), LAMBDA a :
    IF a.err.thrown THEN [err |-> a.err, a |-> 0, b |-> 0]
    ELSE Bind(getInt(instr, state.env, 1), LAMBDA b :
           IF b.err.thrown THEN [err |-> b.err, a |-> 0, b |-> 0]
           ELSE [err |-> NoError, a |-> a.val.v, b |-> b.val.v]))

evalAdd(instr, state) ==
  Bind(intArgs(instr, state), LAMBDA o :
    IF o.err.thrown THEN Res(state, Throw(o.err))
    ELSE setNext(state, instr.dest, IntV(asIntN(IntBits, o.a + o.b))))

evalMul(instr, state) ==
  Bind(intArgs(instr, state), LAMBDA o :
    IF o.err.thrown THEN Res(state, Throw(o.err))
    ELSE setNext(state, instr.dest, IntV(asIntN(IntBits, o.a * o.b))))

evalSub(instr, state) ==
  Bind(intArgs(instr, state), LAMBDA o :
    IF o.err.thrown THEN Res(state, Throw(o.err))
    ELSE setNext(state, instr.dest, IntV(asIntN(IntBits, o.a - o.b))))

evalDiv(instr, state) ==
  Bind(intArgs(instr, state), LAMBDA o :
    IF o.err.thrown THEN Res(state, Throw(o.err))
    ELSE IF o.b = 0
    THEN Res(state, Throw(rangeError("Division by zero")))
    ELSE setNext(state, instr.dest,
                 IntV(asIntN(IntBits, bigDiv(o.a, o.b)))))

\* le, lt, gt, ge, eq
evalCompare(instr, state) ==
  Bind(intArgs(instr, state), LAMBDA o :
    IF o.err.thrown THEN Res(state, Throw(o.err))
    ELSE setNext(state, instr.dest,
                 BoolV(CASE instr.op = "le" -> o.a <= o.b
                         [] instr.op = "lt" -> o.a < o.b
                         [] instr.op = "gt" -> o.a > o.b
                         [] instr.op = "ge" -> o.a >= o.b
                         [] instr.op = "eq" -> o.a = o.b)))

evalNot(instr, state) ==
  Bind(getBool(instr, state.env, 0), LAMBDA a :
    IF a.err.thrown THEN Res(state, Throw(a.err))
    ELSE setNext(state, instr.dest, BoolV(~a.val.v)))

\* and, or: the second operand is read only when the first does not decide
evalLogic(instr, state) ==
  Bind(getBool(instr, state.env, 0), LAMBDA a :
    IF a.err.thrown THEN Res(state, Throw(a.err))
    ELSE IF a.val.v = (instr.op = "or")
    THEN setNext(state, instr.dest, a.val)
    ELSE Bind(getBool(instr, state.env, 1), LAMBDA b :
           IF b.err.thrown THEN Res(state, Throw(b.err))
           ELSE setNext(state, instr.dest, b.val)))

\* Value.toString(): the digits of a BigInt or of a number, true or false,
\* and [object Object] for a Pointer
toString(val) ==
  CASE val.t \in {"bigint", "number"} -> [text |-> "digits", n |-> val.v]
    [] val.t = "boolean" -> [text |-> IF val.v THEN "true" ELSE "false", n |-> 0]
    [] OTHER -> [text |-> "[object Object]", n |-> 0]

\* args.map(i => get(state.env, i).toString()), from argument k on
RECURSIVE printValues(_, _, _)
printValues(args, env, k) ==
  IF k > Len(args) THEN [err |-> NoError, values |-> <<>>]
  ELSE Bind(get(env, args[k]), LAMBDA g :
         IF g.err.thrown THEN [err |-> g.err, values |-> <<>>]
         ELSE Bind(printValues(args, env, k + 1), LAMBDA rest :
                IF rest.err.thrown THEN rest
                ELSE [err |-> NoError,
                      values |-> <<toString(g.val)>> \o rest.values]))

evalPrint(instr, state) ==
  Bind(printValues(instr.args, state.env, 1), LAMBDA p :
    IF p.err.thrown THEN Res(state, Throw(p.err))
    ELSE Res([state EXCEPT !.out = Append(@, p.values)], NEXT))

evalId(instr, state) ==
  Bind(getArgument(instr, state.env, 0, NoType), LAMBDA g :
    IF g.err.thrown THEN Res(state, Throw(g.err))
    ELSE assign(instr, state, g.val))

evalJmp(instr, state) ==
  Bind(getLabel(instr, 0), LAMBDA l :
    IF l.err.thrown THEN Res(state, Throw(l.err))
    ELSE Res(state, Jump(l.label)))

evalBr(instr, state) ==
  Bind(getBool(instr, state.env, 0), LAMBDA c :
    IF c.err.thrown THEN Res(state, Throw(c.err))
    ELSE Bind(IF c.val.v THEN getLabel(instr, 0) ELSE getLabel(instr, 1),
              LAMBDA l :
           IF l.err.thrown THEN Res(state, Throw(l.err))
           ELSE Res(state, Jump(l.label))))

evalRet(instr, state) ==
  IF Len(instr.args) = 0 THEN Res(state, End(Null))
  ELSE IF Len(instr.args) = 1
  THEN Bind(get(state.env, instr.args[1]), LAMBDA g :
         IF g.err.thrown THEN Res(state, Throw(g.err))
         ELSE Res(state, End(g.val)))
  ELSE Res(state, Throw(error("ret takes 0 or 1 argument(s)")))

evalAlloc(instr, state) ==
  Bind(getInt(instr, state.env, 0), LAMBDA amt :
    IF amt.err.thrown THEN Res(state, Throw(amt.err))
    ELSE IF instr.type.k # "ptr"
    THEN Res(state, Throw(error("cannot allocate non-pointer type")))
    ELSE Bind(alloc(instr.type, amt.val.v, state.heap, state.nkeys), LAMBDA a :
           IF a.err.thrown THEN Res(state, Throw(a.err))
           ELSE assign(instr,
                       [state EXCEPT !.heap = a.heap, !.nkeys = @ + 1],
                       a.ptr)))

evalFree(instr, state) ==
  Bind(getPtr(instr, state.env, 0), LAMBDA val :
    IF val.err.thrown THEN Res(state, Throw(val.err))
    ELSE IF ~state.disablefree
    THEN Bind(Heap_free(state.heap, val.val.loc), LAMBDA f :
           IF f.err.thrown THEN Res(state, Throw(f.err))
           ELSE Res([state EXCEPT !.heap = f.heap,
                                  !.gc = removeReference(@, val.val.loc)],
                    NEXT))
    ELSE Res(state, NEXT))

evalStore(instr, state) ==
  Bind(getPtr(instr, state.env, 0), LAMBDA target :
    IF target.err.thrown THEN Res(state, Throw(target.err))
    ELSE Bind(getArgument(instr, state.env, 1, target.val.type), LAMBDA v :
           IF v.err.thrown THEN Res(state, Throw(v.err))
           ELSE Bind(Heap_write(state.heap, target.val.loc, v.val), LAMBDA w :
                  IF w.err.thrown THEN Res(state, Throw(w.err))
                  ELSE Res([state EXCEPT !.heap = w.heap], NEXT))))

evalLoad(instr, state) ==
  Bind(getPtr(instr, state.env, 0), LAMBDA ptr :
    IF ptr.err.thrown THEN Res(state, Throw(ptr.err))
    ELSE Bind(Heap_read(state.heap, ptr.val.loc), LAMBDA r :
           IF r.err.thrown THEN Res(state, Throw(r.err))
           ELSE IF r.val = Undefined \/ r.val = Null
           THEN Res(state, Throw(error("Pointer points to uninitialized data")))
           ELSE setNext(state, instr.dest, r.val)))

\* Key.add: a new Key object with the offset advanced
Key_add(key, offset, id) == Key(key.base, key.offset + offset, id)

evalPtradd(instr, state) ==
  Bind(getPtr(instr, state.env, 0), LAMBDA ptr :
    IF ptr.err.thrown THEN Res(state, Throw(ptr.err))
    ELSE Bind(getInt(instr, state.env, 1), LAMBDA val :
           IF val.err.thrown THEN Res(state, Throw(val.err))
           ELSE setNext([state EXCEPT !.nkeys = @ + 1], instr.dest,
                        PtrV(Key_add(ptr.val.loc, val.val.v, state.nkeys),
                             ptr.val.type))))

\* (mutant) the index of the last occurrence
indexOf_last(seq, x) ==
  IF \E k \in 1..Len(seq) : seq[k] = x
  THEN (CHOOSE k \in 1..Len(seq) :
          seq[k] = x /\ \A j \in (k + 1)..Len(seq) : seq[j] # x) - 1
  ELSE -1

\* Array.indexOf, 0-based, -1 when absent
indexOf(seq, x) ==
  IF \E k \in 1..Len(seq) : seq[k] = x
  THEN (CHOOSE k \in 1..Len(seq) :
          seq[k] = x /\ \A j \in 1..(k - 1) : seq[j] # x) - 1
  ELSE -1

\* the phi node once lastlabel is known to be set; idx = indexOf(lastlabel)
phiSelect(instr, state, idx) ==
  IF idx = -1
  THEN Res([state EXCEPT !.env = envDelete(@, instr.dest)], NEXT)
  ELSE IF state.env[instr.args[idx + 1]] = Undefined
  THEN Res([state EXCEPT !.env = envDelete(@, instr.dest)], NEXT)
  ELSE setNext(state, instr.dest, state.env[instr.args[idx + 1]])

evalPhi(instr, state) ==
  IF Len(instr.labels) # Len(instr.args)
  THEN Res(state, Throw(error("phi node has unequal numbers of labels and args")))
  ELSE IF state.lastlabel = NullLabel
  THEN Res(state, Throw(error("phi node executed with no last label")))
  ELSE phiSelect(instr, state, indexOf(instr.labels, state.lastlabel))

evalGuard(instr, state) ==
  Bind(getBool(instr, state.env, 0), LAMBDA c :
    IF c.err.thrown THEN Res(state, Throw(c.err))
    ELSE IF c.val.v THEN Res(state, NEXT)
    ELSE Bind(getLabel(instr, 0), LAMBDA l :
           IF l.err.thrown THEN Res(state, Throw(l.err))
           ELSE Res(state, Abort(l.label))))

----------------------------------------------------------------------------
(* evalCall.  The recursive call of evalFunc in its middle is a push of a   *)
(* frame: evalCallEnter is the part before it, evalCallReturn the part      *)
(* after it.                                                                *)

findFunc(func, fs) ==
  Bind(SelectSeq(fs, LAMBDA f : f.name = func), LAMBDA matches :
    IF Len(matches) = 0
    THEN [err |-> error("no function of name found"), func |-> Undefined]
    ELSE IF Len(matches) > 1
    THEN [err |-> error("multiple functions of name found"), func |-> Undefined]
    ELSE [err |-> NoError, func |-> matches[1]])

\* the loop over the parameters, from parameter k on (1-based)
RECURSIVE bindParams(_, _, _, _, _)
bindParams(k, params, args, env, newEnv) ==
  IF k > Len(params) THEN [err |-> NoError, env |-> newEnv]
  ELSE Bind(get(env, args[k]), LAMBDA g :
         IF g.err.thrown THEN [err |-> g.err, env |-> newEnv]
         ELSE IF ~typeKnown(params[k].type)
         THEN [err |-> error("unknown type"), env |-> newEnv]
         ELSE IF ~typeCheck(g.val, params[k].type)
         THEN [err |-> error("function argument type mismatch"), env |-> newEnv]
         ELSE bindParams(k + 1, params, args, env,
                         envSet(newEnv, params[k].name, g.val)))

\* the tracer's part of evalCall before the callee runs
traceCall(state, funcName) ==
  IF state.tracerenabled /\ ~isTraced(state.tracer, funcName)
  THEN Bind(addFunctionCall(state.tracer, funcName), LAMBDA t1 :
         IF isHot(t1, funcName) THEN activate(t1, funcName) ELSE t1)
  ELSE state.tracer

\* (mutant) the callee starts from the env of its caller
enterFunc_inherit(instr, state, func) ==
  IF Len(func.args) # Len(instr.args)
  THEN Res(state, Throw(error("function expected arguments")))
  ELSE Bind(bindParams(1, func.args, instr.args, state.env, state.env),
            LAMBDA b :
         IF b.err.thrown THEN Res(state, Throw(b.err))
         ELSE Res([state EXCEPT !.tracer = traceCall(state, func.name)],
                  [action |-> "call", func |-> func,
                   newState |-> [env |-> b.env, icount |-> state.icount,
                                 lastlabel |-> NullLabel,
                                 curlabel |-> NullLabel,
                                 specparent |-> <<>>]]))

\* evalCall from the arity check to the call of evalFunc(func, newState)
enterFunc(instr, state, func) ==
  IF Len(func.args) # Len(instr.args)
  THEN Res(state, Throw(error("function expected arguments")))
  ELSE Bind(bindParams(1, func.args, instr.args, state.env, EmptyEnv),
            LAMBDA b :
         IF b.err.thrown THEN Res(state, Throw(b.err))
         ELSE Res([state EXCEPT !.tracer = traceCall(state, func.name)],
                  [action |-> "call", func |-> func,
                   newState |-> [env |-> b.env, icount |-> state.icount,
                                 lastlabel |-> NullLabel,
                                 curlabel |-> NullLabel,
                                 specparent |-> <<>>]]))

evalCallEnter(instr, state) ==
  Bind(getFunc(instr, 0), LAMBDA fn :
    IF fn.err.thrown THEN Res(state, Throw(fn.err))
    ELSE Bind(findFunc(fn.func, funcs), LAMBDA ff :
           IF ff.err.thrown THEN Res(state, Throw(ff.err))
           ELSE enterFunc(instr, state, ff.func)))

\* the tracer's part of evalCall after the callee has returned
traceReturn(state, funcName) ==
  IF state.tracerenabled /\ isActive(state.tracer)
  THEN completeTracing(deactivate(state.tracer), funcName)
  ELSE state.tracer

\* (mutant) the declared types of the call and of the callee are not compared
checkReturn_noCmp(instr, s1, func, retVal) ==
  IF instr.dest = NoDest
  THEN IF retVal # Null
       THEN Res(s1, Throw(error("unexpected value returned without destination")))
       ELSE IF func.type # NoType
       THEN Res(s1, Throw(error("non-void function doesn't return anything")))
       ELSE Res(s1, NEXT)
  ELSE IF instr.type = NoType
       THEN Res(s1, Throw(error("function call must include a type")))
       ELSE IF retVal = Null
       THEN Res(s1, Throw(error("non-void function doesn't return anything")))
       ELSE IF ~typeCheck(retVal, instr.type)
       THEN Res(s1, Throw(error("type of value returned does not match destination type")))
       ELSE IF func.type = NoType
       THEN Res(s1, Throw(error("function with void return type used in value call")))
       ELSE setNext(s1, instr.dest, retVal)

\* the dynamic check of the function's return value and type; s1 is the
\* caller's State
checkReturn(instr, s1, func, retVal) ==
  IF instr.dest = NoDest
  THEN IF retVal # Null
       THEN Res(s1, Throw(error("unexpected value returned without destination")))
       ELSE IF func.type # NoType
       THEN Res(s1, Throw(error("non-void function doesn't return anything")))
       ELSE Res(s1, NEXT)
  ELSE IF instr.type = NoType
       THEN Res(s1, Throw(error("function call must include a type")))
       ELSE IF retVal = Null
       THEN Res(s1, Throw(error("non-void function doesn't return anything")))
       ELSE IF ~typeKnown(instr.type)
       THEN Res(s1, Throw(error("unknown type")))
       ELSE IF ~typeCheck(retVal, instr.type)
       THEN Res(s1, Throw(error("type of value returned does not match destination type")))
       ELSE IF func.type = NoType
       THEN Res(s1, Throw(error("function with void return type used in value call")))
       ELSE IF ~typeCmp(instr.type, func.type)
       THEN Res(s1, Throw(error("type of value returned does not match declaration")))
       ELSE setNext(s1, instr.dest, retVal)

\* (mutant) the callee's instruction count is not copied back
evalCallReturn_stale(instr, state, func, newIcount, retVal) ==
  checkReturn(instr,
              [state EXCEPT !.tracer = traceReturn(state, func.name)],
              func, retVal)

\* state: the caller's State; newIcount: newState.icount; func: the callee
evalCallReturn(instr, state, func, newIcount, retVal) ==
  checkReturn(instr,
              [state EXCEPT !.tracer = traceReturn(state, func.name),
                            !.icount = newIcount],
              func, retVal)

----------------------------------------------------------------------------
(* evalInstr *)

evalOp(instr, state) ==
  CASE instr.op = "const" -> evalConst(instr, state)
    [] instr.op = "id" -> evalId(instr, state)
    [] instr.op = "add" -> evalAdd(instr, state)
    [] instr.op = "mul" -> evalMul(instr, state)
    [] instr.op = "sub" -> evalSub(instr, state)
    [] instr.op = "div" -> evalDiv(instr, state)
    [] instr.op \in {"le", "lt", "gt", "ge", "eq"} -> evalCompare(instr, state)
    [] instr.op = "not" -> evalNot(instr, state)
    [] instr.op \in {"and", "or"} -> evalLogic(instr, state)
    [] instr.op = "print" -> evalPrint(instr, state)
    [] instr.op = "jmp" -> evalJmp(instr, state)
    [] instr.op = "br" -> evalBr(instr, state)
    [] instr.op = "ret" -> evalRet(instr, state)
    [] instr.op = "nop" -> Res(state, NEXT)
    [] instr.op = "call" -> evalCallEnter(instr, state)
    [] instr.op = "alloc" -> evalAlloc(instr, state)
    [] instr.op = "free" -> evalFree(instr, state)
    [] instr.op = "store" -> evalStore(instr, state)
    [] instr.op = "load" -> evalLoad(instr, state)
    [] instr.op = "ptradd" -> evalPtradd(instr, state)
    [] instr.op = "phi" -> evalPhi(instr, state)
    [] instr.op = "speculate" -> Res(state, [action |-> "speculate"])
    [] instr.op = "guard" -> evalGuard(instr, state)
    [] instr.op = "commit" -> Res(state, [action |-> "commit"])

\* the check of the number of arguments
arityCheck(instr) ==
  IF instr.op = "const" THEN NoError
  ELSE IF instr.op \notin DOMAIN argCounts
  THEN error("unknown opcode")
  ELSE IF argCounts[instr.op] # AnyCount
  THEN checkArgs(instr, argCounts[instr.op])
  ELSE NoError

\* state.icount += 1 and the tracer's log
\* (mutant) an instruction that is logged is not counted
countInstr_logged(instr, state) ==
  IF isActive(state.tracer)
  THEN [state EXCEPT !.tracer = traceInstr(@, instr)]
  ELSE [state EXCEPT !.icount = @ + 1]

countInstr(instr, state) ==
  [state EXCEPT
     !.icount = @ + 1,
     !.tracer = IF isActive(@) THEN traceInstr(@, instr) ELSE @]

\* (mutant) call and ret are let through during speculation
dispatch_unchecked(instr, s1) ==
  IF arityCheck(instr).thrown THEN Res(s1, Throw(arityCheck(instr)))
  ELSE evalOp(instr, s1)

\* evalInstr after the count: s1 is the counted State
dispatch(instr, s1) ==
  IF arityCheck(instr).thrown THEN Res(s1, Throw(arityCheck(instr)))
  ELSE IF s1.specparent # <<>> /\ instr.op \in {"call", "ret"}
  THEN Res(s1, Throw(error(IF instr.op = "call"
                              THEN "call not allowed during speculation"
                              ELSE "ret not allowed during speculation")))
  ELSE evalOp(instr, s1)

evalInstr(instr, state) == dispatch(instr, countInstr(instr, state))

----------------------------------------------------------------------------
(* evalFunc.  A frame is the State of one activation of evalFunc with its   *)
(* function, its cursor i (0-based) and the call instruction that made it.  *)

LabelItem(l) == [kind |-> "label", label |-> l]
Slot == [kind |-> "op"]
NoInstr == [op |-> "<entry>"]

Function(name, args, type, instrs) ==
  [name |-> name, args |-> args, type |-> type, instrs |-> instrs]

NewFrame(func, newState, instr) ==
  [func |-> func, i |-> 0, instr |-> instr,
   env |-> newState.env, icount |-> newState.icount,
   lastlabel |-> newState.lastlabel, curlabel |-> newState.curlabel,
   specparent |-> newState.specparent]

Shared ==
  [heap |-> heap, gc |-> gc, tracer |-> tracer, nkeys |-> nkeys, out |-> out]

\* the State of the frame fr under the options o
StateWith(fr, sh, o) ==
  [env |-> fr.env, icount |-> fr.icount, lastlabel |-> fr.lastlabel,
   curlabel |-> fr.curlabel, specparent |-> fr.specparent,
   heap |-> sh.heap, gc |-> sh.gc, tracer |-> sh.tracer, nkeys |-> sh.nkeys,
   out |-> sh.out,
   gcenabled |-> o.gcenabled, disablefree |-> o.disablefree,
   tracerenabled |-> o.tracerenabled]

StateOf(fr, sh) == StateWith(fr, sh, opts)

SharedOf(state) ==
  [heap |-> state.heap, gc |-> state.gc, tracer |-> state.tracer,
   nkeys |-> state.nkeys, out |-> state.out]

FrameOf(fr, state, i) ==
  [fr EXCEPT !.env = state.env, !.icount = state.icount,
             !.lastlabel = state.lastlabel, !.curlabel = state.curlabel,
             !.specparent = state.specparent, !.i = i]

\* the snapshot {...state}: the frame-local fields of the copy
Snapshot(state) ==
  [env |-> state.env, icount |-> state.icount,
   lastlabel |-> state.lastlabel, curlabel |-> state.curlabel]

\* case 'speculate'
actSpeculate(state) ==
  [state EXCEPT !.specparent = <<Snapshot(state)>> \o @]

\* (mutant) a commit that rolls the frame back to the snapshot
actCommit_rollback(state) ==
  [state EXCEPT !.env = Head(state.specparent).env,
                !.specparent = <<>>]

\* case 'commit', specparent non-null
actCommit(state) ==
  [state EXCEPT !.specparent = <<>>]

\* (mutant) an abort that keeps the speculative env: the snapshot shares
\* the Map instead of holding the one the clone was made from
actAbort_sharedEnv(state) ==
  [state EXCEPT !.lastlabel = Head(state.specparent).lastlabel,
                !.curlabel = Head(state.specparent).curlabel,
                !.specparent = Tail(state.specparent)]

\* (mutant) an abort that also gives up the reference counts
actAbort_counts(state) ==
  [state EXCEPT !.env = Head(state.specparent).env,
                !.lastlabel = Head(state.specparent).lastlabel,
                !.curlabel = Head(state.specparent).curlabel,
                !.specparent = Tail(state.specparent),
                !.gc = EmptyGC]

\* case 'abort', specparent non-null
actAbort(state) ==
  [state EXCEPT !.env = Head(state.specparent).env,
                !.lastlabel = Head(state.specparent).lastlabel,
                !.curlabel = Head(state.specparent).curlabel,
                !.specparent = Tail(state.specparent)]

\* (mutant) the search stops at the last Label named label
searchLabel_last(instrs, label) ==
  IF \E k \in 1..Len(instrs) :
       instrs[k].kind = "label" /\ instrs[k].label = label
  THEN (CHOOSE k \in 1..Len(instrs) :
          /\ instrs[k].kind = "label" /\ instrs[k].label = label
          /\ \A j \in (k + 1)..Len(instrs) :
               ~(instrs[j].kind = "label" /\ instrs[j].label = label)) - 1
  ELSE Len(instrs)

\* the search loop: the index (0-based) of the first Label named label,
\* instrs.length when there is none
searchLabel(instrs, label) ==
  IF \E k \in 1..Len(instrs) :
       instrs[k].kind = "label" /\ instrs[k].label = label
  THEN (CHOOSE k \in 1..Len(instrs) :
          /\ instrs[k].kind = "label" /\ instrs[k].label = label
          /\ \A j \in 1..(k - 1) :
               ~(instrs[j].kind = "label" /\ instrs[j].label = label)) - 1
  ELSE Len(instrs)

\* the switch on action.action
switchAction(state, action) ==
  CASE action.action = "speculate" ->
         [err |-> NoError, state |-> actSpeculate(state)]
    [] action.action = "commit" ->
         IF state.specparent = <<>>
         THEN [err |-> error("commit in non-speculative state"),
               state |-> state]
         ELSE [err |-> NoError, state |-> actCommit(state)]
    [] action.action = "abort" ->
         IF state.specparent = <<>>
         THEN [err |-> error("abort in non-speculative state"),
               state |-> state]
         ELSE [err |-> NoError, state |-> actAbort(state)]
    [] OTHER -> [err |-> NoError, state |-> state]

\* the move to a label: the cursor of the next item, after the action of
\* the instruction at cursor i
moveTo(func, i, action) ==
  IF action.action \in {"jump", "abort"}
  THEN IF searchLabel(func.instrs, action.label) = Len(func.instrs)
       THEN [err |-> error("label not found"), i |-> Len(func.instrs)]
       ELSE [err |-> NoError, i |-> searchLabel(func.instrs, action.label)]
  ELSE [err |-> NoError, i |-> i + 1]

takeAction(func, state, i, action) ==
  Bind(switchAction(state, action), LAMBDA sw :
    IF sw.err.thrown THEN [err |-> sw.err, state |-> sw.state, i |-> i]
    ELSE [err |-> moveTo(func, i, action).err, state |-> sw.state,
          i |-> moveTo(func, i, action).i])

\* a Label item: update CFG tracking for SSA phi nodes
crossLabel(fr, label) ==
  [fr EXCEPT !.lastlabel = fr.curlabel, !.curlabel = label, !.i = @ + 1]

----------------------------------------------------------------------------
(* One step of the interpreter: what the next code item of the running     *)
(* frame does to the stack and to the shared objects.                       *)

Post(stk, sh, st, e, act) ==
  [stack |-> stk, sh |-> sh, status |-> st, err |-> e, action |-> act]

\* evalCall of the caller goes on after evalFunc of the callee: r is what
\* evalCallReturn gave
resume(caller, rest, r) ==
  IF r.action.action = "throw"
  THEN Post(<<FrameOf(caller, r.state, caller.i)>> \o rest,
            SharedOf(r.state), "error", r.action.error, "end")
  ELSE Bind(takeAction(caller.func, r.state, caller.i, r.action), LAMBDA a :
         Post(<<FrameOf(caller, a.state, a.i)>> \o rest,
              SharedOf(a.state), "running", NoError, "end"))

\* evalFunc of the frame stk[1] returns retVal: evalProg goes on when the
\* frame is main's, evalCall of the caller goes on otherwise; o: the options
returnTo(stk, sh, retVal, o) ==
  IF Len(stk) = 1
  THEN Post(stk, sh, "returned", NoError, "end")
  ELSE resume(stk[2], Tail(Tail(stk)),
              evalCallReturn(stk[1].instr, StateWith(stk[2], sh, o),
                             stk[1].func, stk[1].icount, retVal))

\* evalFunc acts on the Action r.action that evalInstr returned for instr;
\* fr: the running frame, rest: the frames of its callers
act(instr, fr, rest, r, o) ==
  CASE r.action.action = "throw" ->
         Post(<<FrameOf(fr, r.state, fr.i)>> \o rest,
              SharedOf(r.state), "error", r.action.error, "throw")
    [] r.action.action = "call" ->
         Post(<<NewFrame(r.action.func, r.action.newState, instr),
                FrameOf(fr, r.state, fr.i)>> \o rest,
              SharedOf(r.state), "running", NoError, "call")
    [] r.action.action = "end" ->
         returnTo(<<FrameOf(fr, r.state, fr.i)>> \o rest,
                  SharedOf(r.state), r.action.ret, o)
    [] OTHER ->
         Bind(takeAction(fr.func, r.state, fr.i, r.action), LAMBDA a :
           IF a.err.thrown
           THEN Post(<<FrameOf(fr, a.state, fr.i)>> \o rest,
                     SharedOf(a.state), "error", a.err, r.action.action)
           ELSE Post(<<FrameOf(fr, a.state, a.i)>> \o rest,
                     SharedOf(a.state), "running", NoError, r.action.action))

\* the body of the loop of evalFunc for an instruction, on the stack stk and
\* the shared objects sh, under the options o
stepOn(instr, stk, sh, o) ==
  act(instr, stk[1], Tail(stk), evalInstr(instr, StateWith(stk[1], sh, o)), o)

step(instr) == stepOn(instr, stack, Shared, opts)

\* reaching the end of the function without hitting ret
implicitReturnOn(stk, sh, o) ==
  IF stk[1].specparent # <<>>
  THEN Post(stk, sh, "error",
            error("implicit return in speculative state"), "end")
  ELSE returnTo(stk, sh, Null, o)

implicitReturn == implicitReturnOn(stack, Shared, opts)

----------------------------------------------------------------------------
(* History variables.  They record what happened and are read by no step.  *)

FrameView(fr) ==
  [env |-> fr.env, lastlabel |-> fr.lastlabel, curlabel |-> fr.curlabel]

\* snaps: a Speculate pushes the frame as it is, its matching Commit or
\* Abort pops it; a call adds a frame, a return drops one
nextSnaps(post) ==
  IF Len(post.stack) > Len(stack) THEN <<<<>>>> \o snaps
  ELSE IF Len(post.stack) < Len(stack) THEN Tail(snaps)
  ELSE IF post.status = "error" THEN snaps
  ELSE IF post.action = "speculate"
  THEN [snaps EXCEPT ![1] = <<FrameView(stack[1])>> \o @]
  ELSE IF post.action \in {"commit", "abort"}
  THEN [snaps EXCEPT ![1] = Tail(@)]
  ELSE snaps

LastTwo(seq) == IF Len(seq) > 2 THEN Tail(seq) ELSE seq

nextTrail(post) ==
  IF Len(post.stack) > Len(stack) THEN << << <<>> >> >> \o trail
  ELSE IF Len(post.stack) < Len(stack) THEN Tail(trail)
  ELSE IF post.status = "error" THEN trail
  ELSE IF post.action = "speculate"
  THEN [trail EXCEPT ![1] = <<Head(@)>> \o @]
  ELSE IF post.action = "commit"
  THEN [trail EXCEPT ![1] = <<Head(@)>> \o Tail(Tail(@))]
  ELSE IF post.action = "abort"
  THEN [trail EXCEPT ![1] = Tail(@)]
  ELSE trail

ShadowOff == [phase |-> "off"]

\* the same instruction run on the shadow's frame, outside speculation
shadowRun(instr) ==
  Bind(evalInstr(instr, [StateOf(stack[1], Shared) EXCEPT
                           !.env = shadow.env,
                           !.lastlabel = shadow.lastlabel,
                           !.curlabel = shadow.curlabel,
                           !.specparent = <<>>]),
       LAMBDA r :
    IF r.action.action = "throw" THEN [shadow EXCEPT !.err = TRUE]
    ELSE IF r.action.action \in {"call", "end"}
    THEN [shadow EXCEPT !.calls = TRUE]
    ELSE [shadow EXCEPT
            !.env = r.state.env,
            !.err = moveTo(stack[1].func, stack[1].i, r.action).err.thrown])

nextShadow(instr, post) ==
  IF /\ instr.op = "speculate" /\ post.status = "running"
     /\ stack[1].specparent = <<>> /\ snaps[1] = <<>>
  THEN [phase |-> "on", env |-> stack[1].env, env0 |-> stack[1].env,
        lastlabel |-> stack[1].lastlabel, curlabel |-> stack[1].curlabel,
        err |-> FALSE, calls |-> FALSE]
  ELSE IF shadow.phase # "on" THEN ShadowOff
  ELSE IF instr.op = "speculate" THEN ShadowOff
  ELSE IF instr.op = "commit" THEN [shadow EXCEPT !.phase = "done"]
  ELSE IF instr.op = "guard"
  THEN IF post.action = "next" THEN shadow ELSE ShadowOff
  ELSE shadowRun(instr)

\* the base of the Pointer bound to the first argument, -1 when there is none
argBase(instr) ==
  IF Len(instr.args) >= 1 /\ hasLoc(stack[1].env[instr.args[1]])
  THEN stack[1].env[instr.args[1]].loc.base
  ELSE -1

nextMem(instr, post) ==
  [sizes |-> IF instr.op = "alloc" /\ post.sh.heap.count > heap.count
             THEN Append(mem.sizes, stack[1].env[instr.args[1]].v)
             ELSE mem.sizes,
   bases |-> IF instr.op = "alloc" /\ post.sh.heap.count > heap.count
             THEN Append(mem.bases, post.stack[1].env[instr.dest].loc.base)
             ELSE mem.bases,
   freed |-> mem.freed \cup
               (DOMAIN heap.storage \ DOMAIN post.sh.heap.storage),
   released |-> IF instr.op = "free" /\ post.status = "running"
                THEN mem.released \cup {argBase(instr)}
                ELSE mem.released]

----------------------------------------------------------------------------
(* Actions *)

AtSlot ==
  /\ status = "running"
  /\ stack[1].i < Len(stack[1].func.instrs)
  /\ stack[1].func.instrs[stack[1].i + 1].kind = "op"

AtLabel ==
  /\ status = "running"
  /\ stack[1].i < Len(stack[1].func.instrs)
  /\ stack[1].func.instrs[stack[1].i + 1].kind = "label"

AtEnd ==
  /\ status = "running"
  /\ stack[1].i >= Len(stack[1].func.instrs)

\* the program is an input: the instruction of a slot is fixed the first
\* time the cursor fetches it, and is the same at every later visit
Holds(item, instr) == "instr" \in DOMAIN item => item.instr = instr

Fetched(instr) ==
  [k \in DOMAIN funcs |->
     IF funcs[k].name = stack[1].func.name
     THEN [funcs[k] EXCEPT
             !.instrs[stack[1].i + 1] = [kind |-> "op", instr |-> instr]]
     ELSE funcs[k]]

\* the frames refer to the functions of the program
Linked(stk, fs) ==
  [k \in DOMAIN stk |-> [stk[k] EXCEPT !.func = findFunc(@.name, fs).func]]

WithinBounds(instr) ==
  /\ dispatched < (IF opts.tracerenabled THEN MaxTraceICount ELSE MaxICount)
  /\ instr.op = "call" =>
       Len(stack) < (IF opts.tracerenabled THEN MaxTraceDepth ELSE MaxDepth)
  /\ instr.op = "speculate" => Len(stack[1].specparent) < MaxSpecDepth
  /\ instr.op = "alloc" => heap.count < MaxAllocs
  /\ instr.op \in {"alloc", "ptradd"} => nkeys < MaxKeys

Apply(post, fs) ==
  /\ funcs' = fs
  /\ stack' = Linked(post.stack, fs)
  /\ heap' = post.sh.heap
  /\ gc' = post.sh.gc
  /\ tracer' = post.sh.tracer
  /\ nkeys' = post.sh.nkeys
  /\ out' = post.sh.out
  /\ status' = post.status
  /\ err' = post.err

\* an instruction slot holds instr: evalInstr and the action it returns
Exec(instr) ==
  /\ AtSlot
  /\ Holds(stack[1].func.instrs[stack[1].i + 1], instr)
  /\ WithinBounds(instr)
  /\ \E post \in {step(instr)} :
       /\ Apply(post, Fetched(instr))
       /\ last' = [step |-> "instr", instr |-> instr, action |-> post.action]
       /\ snaps' = nextSnaps(post)
       /\ shadow' = nextShadow(instr, post)
       /\ mem' = nextMem(instr, post)
       /\ trail' = nextTrail(post)
  /\ dispatched' = dispatched + 1
  /\ UNCHANGED opts

\* the cursor crosses a Label item
Label ==
  /\ AtLabel
  /\ \E l \in {stack[1].func.instrs[stack[1].i + 1].label} :
       /\ stack' = <<crossLabel(stack[1], l)>> \o Tail(stack)
       /\ shadow' = IF shadow.phase = "on"
                    THEN [shadow EXCEPT !.lastlabel = shadow.curlabel,
                                        !.curlabel = l]
                    ELSE ShadowOff
       /\ trail' = [trail EXCEPT
                      ![1] = <<LastTwo(Append(Head(@), l))>> \o Tail(@)]
  /\ last' = [step |-> "label"]
  /\ UNCHANGED <<funcs, opts, heap, gc, tracer, nkeys, out, status, err,
                 dispatched, snaps, mem>>

\* the loop of evalFunc ends
FallOff ==
  /\ AtEnd
  /\ \E post \in {implicitReturn} :
       /\ Apply(post, funcs)
       /\ snaps' = nextSnaps(post)
       /\ trail' = nextTrail(post)
  /\ last' = [step |-> "falloff"]
  /\ shadow' = ShadowOff
  /\ UNCHANGED <<opts, dispatched, mem>>

\* evalProg after evalFunc(main, state): the sweep of -gc
Clean ==
  /\ status = "returned"
  /\ opts.gcenabled
  /\ \E c \in {clean(heap, gc)} :
       /\ heap' = c.heap
       /\ gc' = c.gc
       /\ status' = IF c.err.thrown THEN "error" ELSE "swept"
       /\ err' = c.err
       /\ mem' = [mem EXCEPT !.freed = @ \cup (DOMAIN heap.storage
                                                 \ DOMAIN c.heap.storage)]
  /\ last' = [step |-> "clean"]
  /\ UNCHANGED <<funcs, opts, stack, tracer, nkeys, out, dispatched, snaps,
                 shadow, trail>>

\* evalProg: the heap must be empty
CheckHeap ==
  /\ (status = "returned" /\ ~opts.gcenabled) \/ status = "swept"
  /\ status' = IF ~isEmpty(heap) THEN "error" ELSE "done"
  /\ err' = IF ~isEmpty(heap)
            THEN error("Some memory locations have not been freed by end of execution.")
            ELSE NoError
  /\ last' = [step |-> "check"]
  /\ UNCHANGED <<funcs, opts, stack, heap, gc, tracer, nkeys, out, dispatched,
                 snaps, shadow, mem, trail>>

\* main: a BriliError is reported and the process exits with code 2; any
\* other thrown value is thrown again and ends the process as an uncaught
\* exception (code 1 of the runtime)
mainCatch(e) ==
  IF e.brili THEN [code |-> 2, uncaught |-> FALSE]
  ELSE [code |-> 1, uncaught |-> TRUE]

\* the end of main
Exit ==
  /\ status \in {"done", "error"}
  /\ status' = "exited"
  /\ last' = [step |-> "exit",
              exit |-> IF status = "done" THEN [code |-> 0, uncaught |-> FALSE]
                       ELSE mainCatch(err)]
  /\ UNCHANGED <<funcs, opts, stack, heap, gc, tracer, nkeys, out, err,
                 dispatched, snaps, shadow, mem, trail>>

----------------------------------------------------------------------------
(* The driver's initial State (evalProg), for a program and its options *)

MainFrame(fs, env) ==
  NewFrame(findFunc("main", fs).func,
           [env |-> env, icount |-> 0, lastlabel |-> NullLabel,
            curlabel |-> NullLabel, specparent |-> <<>>],
           NoInstr)

Options(usegc, df, tr) ==
  [gcenabled |-> usegc, disablefree |-> df, tracerenabled |-> tr]

Start(fs, o, env) ==
  /\ funcs = fs
  /\ opts = o
  /\ stack = <<MainFrame(fs, env)>>
  /\ heap = EmptyHeap
  /\ gc = EmptyGC
  /\ tracer = NewTracer
  /\ nkeys = 0
  /\ out = <<>>
  /\ status = "running"
  /\ err = NoError
  /\ last = [step |-> "init"]
  /\ dispatched = 0
  /\ snaps = << <<>> >>
  /\ shadow = ShadowOff
  /\ mem = [sizes |-> <<>>, bases |-> <<>>, freed |-> {}, released |-> {}]
  /\ trail = << << <<>> >> >>

Const(I) == \E instr \in I : instr.op = "const" /\ Exec(instr)
Id(I) == \E instr \in I : instr.op = "id" /\ Exec(instr)
Jmp(I) == \E instr \in I : instr.op = "jmp" /\ Exec(instr)
Br(I) == \E instr \in I : instr.op = "br" /\ Exec(instr)
Ret(I) == \E instr \in I : instr.op = "ret" /\ Exec(instr)
Call(I) == \E instr \in I : instr.op = "call" /\ Exec(instr)
Alloc(I) == \E instr \in I : instr.op = "alloc" /\ Exec(instr)
Free(I) == \E instr \in I : instr.op = "free" /\ Exec(instr)
Store(I) == \E instr \in I : instr.op = "store" /\ Exec(instr)
Load(I) == \E instr \in I : instr.op = "load" /\ Exec(instr)
Ptradd(I) == \E instr \in I : instr.op = "ptradd" /\ Exec(instr)
Phi(I) == \E instr \in I : instr.op = "phi" /\ Exec(instr)
Speculate(I) == \E instr \in I : instr.op = "speculate" /\ Exec(instr)
Guard(I) == \E instr \in I : instr.op = "guard" /\ Exec(instr)
CommitOp(I) == \E instr \in I : instr.op = "commit" /\ Exec(instr)
Add(I) == \E instr \in I : instr.op = "add" /\ Exec(instr)
Mul(I) == \E instr \in I : instr.op = "mul" /\ Exec(instr)
Sub(I) == \E instr \in I : instr.op = "sub" /\ Exec(instr)
Div(I) == \E instr \in I : instr.op = "div" /\ Exec(instr)
PrintOp(I) == \E instr \in I : instr.op = "print" /\ Exec(instr)

----------------------------------------------------------------------------
(* Control flow and speculation: programs over const, jmp, speculate,       *)
(* guard, commit, call and ret.                                             *)

CtlInstrs ==
  {ConstOp("x", TInt, NumLit(n)) : n \in {0, 1}}
  \cup {ConstOp("c", TBool, BoolLit(b)) : b \in BOOLEAN}
  \cup {EffectOp("speculate", <<>>, <<>>), EffectOp("commit", <<>>, <<>>)}
  \cup {EffectOp("guard", <<"c">>, <<l>>) : l \in {"a", "b"}}
  \cup {EffectOp("jmp", <<>>, <<l>>) : l \in {"a", "b"}}
  \cup {CallOp(NoDest, NoType, "f", <<>>), EffectOp("ret", <<>>, <<>>)}

CtlFuncs ==
  <<Function("main", <<>>, NoType,
             <<Slot, Slot, LabelItem("a"), Slot, LabelItem("b"), Slot, Slot>>),
    Function("f", <<>>, NoType, <<Slot, LabelItem("a"), Slot>>)>>

InitCtl == Start(CtlFuncs, Options(FALSE, FALSE, FALSE), EmptyEnv)

NextCtl ==
  \/ Const(CtlInstrs)
  \/ Jmp(CtlInstrs)
  \/ Speculate(CtlInstrs)
  \/ Guard(CtlInstrs)
  \/ CommitOp(CtlInstrs)
  \/ Call(CtlInstrs)
  \/ Ret(CtlInstrs)
  \/ Label
  \/ FallOff
  \/ CheckHeap

SpecCtl == InitCtl /\ [][NextCtl]_vars

----------------------------------------------------------------------------
(* SSA phi nodes: programs over const, jmp, br, phi, speculate and guard;   *)
(* main takes the bool c.                                                   *)

PhiInstrs ==
  {ConstOp("x", TInt, NumLit(0)), ConstOp("y", TInt, NumLit(1))}
  \cup {EffectOp("jmp", <<>>, <<l>>) : l \in {"a", "d"}}
  \cup {EffectOp("br", <<"c">>, <<"b", "d">>)}
  \cup {PhiOp("x", TInt, <<"x", "y">>, ls) :
          ls \in {<<"a", "b">>, <<"b", "a">>, <<"a", "a">>, <<"a">>}}
  \cup {PhiOp("x", TInt, <<"n", "y">>, <<"b", "a">>),
        PhiOp("y", TInt, <<"x">>, <<"b">>)}
  \cup {EffectOp("speculate", <<>>, <<>>), EffectOp("guard", <<"c">>, <<"d">>)}

PhiFuncs ==
  <<Function("main", <<[name |-> "c", type |-> TBool]>>, NoType,
             <<Slot, LabelItem("a"), Slot, LabelItem("b"), Slot,
               LabelItem("d"), Slot>>)>>

InitPhi ==
  \E c \in BOOLEAN :
    Start(PhiFuncs, Options(FALSE, FALSE, FALSE), envSet(EmptyEnv, "c", BoolV(c)))

NextPhi ==
  \/ Const(PhiInstrs) \/ Jmp(PhiInstrs) \/ Br(PhiInstrs) \/ Phi(PhiInstrs)
  \/ Speculate(PhiInstrs) \/ Guard(PhiInstrs)
  \/ Label \/ FallOff \/ CheckHeap

SpecPhi == InitPhi /\ [][NextPhi]_vars

----------------------------------------------------------------------------
(* The heap: programs over alloc, ptradd, store, load and free; main takes  *)
(* the ints n and k.                                                        *)

HeapInstrs ==
  {ValueOp("alloc", d, TPtr(TInt), <<"n">>) : d \in {"p", "q"}}
  \cup {ValueOp("ptradd", "q", TPtr(TInt), <<a, "k">>) : a \in {"p", "q"}}
  \cup {EffectOp("store", <<a, "n">>, <<>>) : a \in {"p", "q"}}
  \cup {ValueOp("load", "x", TInt, <<a>>) : a \in {"p", "q"}}
  \cup {EffectOp("free", <<a>>, <<>>) : a \in {"p", "q"}}

HeapFuncs ==
  <<Function("main",
             <<[name |-> "n", type |-> TInt], [name |-> "k", type |-> TInt]>>,
             NoType, <<Slot, Slot, Slot, Slot, Slot>>)>>

InitHeap ==
  \E n \in {1, 2} : \E k \in {-1, 0, 1, 2} :
    Start(HeapFuncs, Options(FALSE, FALSE, FALSE),
          envSet(envSet(EmptyEnv, "n", IntV(n)), "k", IntV(k)))

NextHeap ==
  \/ Alloc(HeapInstrs) \/ Ptradd(HeapInstrs) \/ Store(HeapInstrs)
  \/ Load(HeapInstrs) \/ Free(HeapInstrs)
  \/ FallOff \/ CheckHeap

SpecHeap == InitHeap /\ [][NextHeap]_vars

----------------------------------------------------------------------------
(* The end of the run: programs over alloc, id, ptradd, free, call and ret, *)
(* run with and without -gc and -df; main takes the ints n and k, f takes   *)
(* the pointer p.                                                           *)

GCInstrs ==
  {ValueOp("alloc", d, TPtr(TInt), <<"n">>) : d \in {"p", "q"}}
  \cup {ValueOp("id", "q", TPtr(TInt), <<"p">>),
        ValueOp("id", "p", TPtr(TInt), <<"p">>)}
  \cup {ValueOp("ptradd", "q", TPtr(TInt), <<"p", "k">>)}
  \cup {EffectOp("free", <<a>>, <<>>) : a \in {"p", "q"}}
  \cup {CallOp(NoDest, NoType, "f", <<"p">>), EffectOp("ret", <<>>, <<>>)}

GCFuncs ==
  <<Function("main",
             <<[name |-> "n", type |-> TInt], [name |-> "k", type |-> TInt]>>,
             NoType, <<Slot, Slot, Slot, Slot>>),
    Function("f", <<[name |-> "p", type |-> TPtr(TInt)]>>, NoType,
             <<Slot, Slot>>)>>

InitGC ==
  \E usegc \in BOOLEAN : \E df \in BOOLEAN : \E k \in {0, 1} :
    Start(GCFuncs, Options(usegc, df, FALSE),
          envSet(envSet(EmptyEnv, "n", IntV(1)), "k", IntV(k)))

NextGC ==
  \/ Alloc(GCInstrs) \/ Id(GCInstrs) \/ Ptradd(GCInstrs) \/ Free(GCInstrs)
  \/ Call(GCInstrs) \/ Ret(GCInstrs)
  \/ FallOff \/ Clean \/ CheckHeap

SpecGC == InitGC /\ [][NextGC]_vars

----------------------------------------------------------------------------
(* Arithmetic and typing: programs over add, sub, mul, div, const, id and   *)
(* free; main takes the ints x and y and the bool c. The ints are drawn     *)
(* from the ends and the middle of the range of an Int.                     *)

ArithInstrs ==
  {ValueOp(op, "x", TInt, <<"x", "y">>) : op \in {"add", "sub", "mul", "div"}}
  \cup {ConstOp("y", TInt, NumLit(0)), ConstOp("c", TBool, NumLit(1))}
  \cup {ValueOp("id", "x", TInt, <<"c">>), ValueOp("id", "y", TInt, <<"x">>)}
  \cup {EffectOp("free", <<"x">>, <<>>)}

ArithFuncs ==
  <<Function("main",
             <<[name |-> "x", type |-> TInt], [name |-> "y", type |-> TInt],
               [name |-> "c", type |-> TBool]>>,
             NoType, <<Slot, Slot, Slot>>)>>

EdgeInts == {MinInt, MaxInt, -1, 0, 1, 2}

InitArith ==
  \E x \in EdgeInts : \E y \in EdgeInts :
    Start(ArithFuncs, Options(FALSE, FALSE, FALSE),
          envSet(envSet(envSet(EmptyEnv, "x", IntV(x)), "y", IntV(y)),
                 "c", BoolV(TRUE)))

NextArith ==
  \/ Add(ArithInstrs) \/ Sub(ArithInstrs) \/ Mul(ArithInstrs)
  \/ Div(ArithInstrs) \/ Const(ArithInstrs) \/ Id(ArithInstrs)
  \/ Free(ArithInstrs)
  \/ FallOff \/ CheckHeap \/ Exit

SpecArith == InitArith /\ [][NextArith]_vars

----------------------------------------------------------------------------
(* Tracing: runs with -tr. main is six slots of calls of f and g, speculate *)
(* and ret; f is two slots of const, print and call g; g is one slot of     *)
(* const and print.                                                         *)

TraceInstrs ==
  CASE stack[1].func.name = "main" ->
         {CallOp(NoDest, NoType, fn, <<>>) : fn \in {"f", "g"}}
         \cup {EffectOp("speculate", <<>>, <<>>), EffectOp("ret", <<>>, <<>>)}
    [] stack[1].func.name = "f" ->
         {ConstOp("x", TInt, NumLit(1)), EffectOp("print", <<"x">>, <<>>),
          CallOp(NoDest, NoType, "g", <<>>)}
    [] OTHER ->
         {ConstOp("x", TInt, NumLit(1)), EffectOp("print", <<"x">>, <<>>)}

TraceFuncs ==
  <<Function("main", <<>>, NoType, <<Slot, Slot, Slot, Slot, Slot, Slot>>),
    Function("f", <<>>, NoType, <<Slot, Slot>>),
    Function("g", <<>>, NoType, <<Slot>>)>>

InitTrace == Start(TraceFuncs, Options(FALSE, FALSE, TRUE), EmptyEnv)

NextTrace ==
  \/ Call(TraceInstrs) \/ Ret(TraceInstrs) \/ Speculate(TraceInstrs)
  \/ Const(TraceInstrs) \/ PrintOp(TraceInstrs)
  \/ FallOff \/ CheckHeap \/ Exit

SpecTrace == InitTrace /\ [][NextTrace]_vars

----------------------------------------------------------------------------
(* Reference counting: runs with -gc, with and without -df, of programs     *)
(* over alloc, id (of a Pointer and of an Int), ptradd and free; main takes *)
(* the ints n and k.                                                        *)

RcInstrs ==
  {ValueOp("alloc", d, TPtr(TInt), <<"n">>) : d \in {"p", "q"}}
  \cup {ValueOp("id", "q", TPtr(TInt), <<"p">>),
        ValueOp("id", "p", TPtr(TInt), <<"p">>)}
  \cup {ValueOp("id", "q", TInt, <<"n">>)}
  \cup {ValueOp("ptradd", "q", TPtr(TInt), <<"p", "k">>)}
  \cup {EffectOp("free", <<"p">>, <<>>)}

RcFuncs ==
  <<Function("main",
             <<[name |-> "n", type |-> TInt], [name |-> "k", type |-> TInt]>>,
             NoType, <<Slot, Slot, Slot, Slot>>)>>

InitRc ==
  \E df \in BOOLEAN :
    Start(RcFuncs, Options(TRUE, df, FALSE),
          envSet(envSet(EmptyEnv, "n", IntV(1)), "k", IntV(0)))

NextRc ==
  \/ Alloc(RcInstrs) \/ Id(RcInstrs) \/ Ptradd(RcInstrs) \/ Free(RcInstrs)
  \/ FallOff \/ Clean \/ CheckHeap \/ Exit

SpecRc == InitRc /\ [][NextRc]_vars

----------------------------------------------------------------------------
(* Frames: main, with the labels a and b before its two slots, calls f with *)
(* its int x; f, declared with and without a return type, has the           *)
(* parameter x, a label d and three slots of const, alloc and ret; runs     *)
(* with and without -gc.                                                    *)

FrameInstrs ==
  IF stack[1].func.name = "main"
  THEN {CallOp(NoDest, NoType, "f", <<"x">>),
        CallOp("r", TInt, "f", <<"x">>),
        CallOp("x", TInt, "f", <<"x">>),
        ConstOp("x", TInt, NumLit(2))}
  ELSE {ConstOp("x", TInt, NumLit(7)), ConstOp("r", TInt, NumLit(9)),
        ValueOp("alloc", "p", TPtr(TInt), <<"x">>),
        EffectOp("ret", <<"x">>, <<>>), EffectOp("ret", <<>>, <<>>)}

FrameFuncs(t) ==
  <<Function("main", <<[name |-> "x", type |-> TInt]>>, NoType,
             <<LabelItem("a"), Slot, LabelItem("b"), Slot>>),
    Function("f", <<[name |-> "x", type |-> TInt]>>, t,
             <<Slot, LabelItem("d"), Slot, Slot>>)>>

InitFrame ==
  \E t \in {NoType, TInt}, usegc \in BOOLEAN :
    Start(FrameFuncs(t), Options(usegc, FALSE, FALSE),
          envSet(EmptyEnv, "x", IntV(1)))

NextFrame ==
  \/ Call(FrameInstrs) \/ Const(FrameInstrs) \/ Alloc(FrameInstrs)
  \/ Ret(FrameInstrs)
  \/ Label \/ FallOff \/ Clean \/ CheckHeap \/ Exit

SpecFrame == InitFrame /\ [][NextFrame]_vars

----------------------------------------------------------------------------
(* Speculation over the shared objects: runs with -tr, with and without     *)
(* -gc; main allocates p and then calls f(p, n, c) five times, so that the  *)
(* last call is traced; f is three slots of speculate, store, alloc, id,    *)
(* free and guard, followed by the label a.                                 *)

AbortInstrs ==
  IF stack[1].func.name = "main"
  THEN IF stack[1].i = 0
       THEN {ValueOp("alloc", "p", TPtr(TInt), <<"n">>)}
       ELSE {CallOp(NoDest, NoType, "f", <<"p", "n", "c">>)}
  ELSE {EffectOp("speculate", <<>>, <<>>),
        EffectOp("store", <<"p", "n">>, <<>>),
        ValueOp("alloc", "q", TPtr(TInt), <<"n">>),
        ValueOp("id", "q", TPtr(TInt), <<"p">>),
        EffectOp("free", <<"p">>, <<>>),
        EffectOp("guard", <<"c">>, <<"a">>)}

AbortFuncs ==
  <<Function("main",
             <<[name |-> "n", type |-> TInt], [name |-> "c", type |-> TBool]>>,
             NoType, <<Slot, Slot, Slot, Slot, Slot, Slot>>),
    Function("f",
             <<[name |-> "p", type |-> TPtr(TInt)],
               [name |-> "n", type |-> TInt],
               [name |-> "c", type |-> TBool]>>,
             NoType, <<Slot, Slot, Slot, LabelItem("a")>>)>>

InitAbort ==
  \E usegc \in BOOLEAN, c \in BOOLEAN :
    Start(AbortFuncs, Options(usegc, FALSE, TRUE),
          envSet(envSet(EmptyEnv, "n", IntV(1)), "c", BoolV(c)))

NextAbort ==
  \/ Alloc(AbortInstrs) \/ Call(AbortInstrs) \/ Speculate(AbortInstrs)
  \/ Store(AbortInstrs) \/ Id(AbortInstrs) \/ Free(AbortInstrs)
  \/ Guard(AbortInstrs)
  \/ Label \/ FallOff \/ Clean \/ CheckHeap \/ Exit

SpecAbort == InitAbort /\ [][NextAbort]_vars

----------------------------------------------------------------------------
(* Labels: programs over jmp, br, speculate and guard; main takes the bool  *)
(* c, has two Labels named a and one named b, and none named d.             *)

LabelInstrs ==
  {EffectOp("jmp", <<>>, <<l>>) : l \in {"a", "b", "d"}}
  \cup {EffectOp("br", <<"c">>, ls) : ls \in {<<"a", "b">>, <<"d", "a">>}}
  \cup {EffectOp("speculate", <<>>, <<>>)}
  \cup {EffectOp("guard", <<"c">>, <<l>>) : l \in {"a", "d"}}

LabelFuncs ==
  <<Function("main", <<[name |-> "c", type |-> TBool]>>, NoType,
             <<Slot, LabelItem("a"), Slot, LabelItem("a"), LabelItem("b"),
               Slot>>)>>

InitLabel ==
  \E c \in BOOLEAN :
    Start(LabelFuncs, Options(FALSE, FALSE, FALSE),
          envSet(EmptyEnv, "c", BoolV(c)))

NextLabel ==
  \/ Jmp(LabelInstrs) \/ Br(LabelInstrs) \/ Speculate(LabelInstrs)
  \/ Guard(LabelInstrs)
  \/ Label \/ FallOff \/ CheckHeap \/ Exit

SpecLabel == InitLabel /\ [][NextLabel]_vars

----------------------------------------------------------------------------
(* Calls: main is two slots of calls of f, effect-shaped and value-shaped   *)
(* with each declared type; f, declared with each return type, is three     *)
(* slots of const, alloc and ret.                                           *)

ReturnTypes == {NoType, TInt, TBool, TPtr(TInt), TPtr(TBool)}

CallInstrs ==
  IF stack[1].func.name = "main"
  THEN {CallOp(NoDest, NoType, "f", <<>>)}
       \cup {CallOp("r", t, "f", <<>>) : t \in ReturnTypes}
  ELSE {ConstOp("x", TInt, NumLit(1)), ConstOp("c", TBool, BoolLit(TRUE)),
        ValueOp("alloc", "p", TPtr(TInt), <<"x">>)}
       \cup {EffectOp("ret", as, <<>>) : as \in {<<>>, <<"x">>, <<"c">>, <<"p">>}}

CallFuncs(t) ==
  <<Function("main", <<>>, NoType, <<Slot, Slot>>),
    Function("f", <<>>, t, <<Slot, Slot, Slot>>)>>

InitCall ==
  \E t \in ReturnTypes :
    Start(CallFuncs(t), Options(FALSE, FALSE, FALSE), EmptyEnv)

NextCall ==
  \/ Call(CallInstrs) \/ Const(CallInstrs) \/ Alloc(CallInstrs)
  \/ Ret(CallInstrs)
  \/ FallOff \/ CheckHeap \/ Exit

SpecCall == InitCall /\ [][NextCall]_vars

----------------------------------------------------------------------------
(* Claims on speculation and the instruction count (SpecCtl) *)

FirstLabelAt(code, label, i) ==
  /\ i < Len(code)
  /\ code[i + 1] = LabelItem(label)
  /\ \A j \in 1..i : code[j] # LabelItem(label)

HasLabel(code, label) == \E k \in 1..Len(code) : code[k] = LabelItem(label)

\* C1: when a guard fails during speculation, the Abort gives the frame the
\* env, lastlabel and curlabel it had at the innermost unmatched Speculate,
\* whatever ran in between, and the next item processed is the first Label
\* named by the guard (an error when the function has none).
C1_AbortRestores ==
  [][(/\ last'.step = "instr"
      /\ last'.action = "abort"
      /\ stack[1].specparent # <<>>)
     => /\ FrameView(stack'[1]) = Head(snaps[1])
        /\ IF HasLabel(stack[1].func.instrs, last'.instr.labels[1])
           THEN /\ status' = "running"
                /\ FirstLabelAt(stack[1].func.instrs, last'.instr.labels[1],
                                stack'[1].i)
           ELSE status' = "error"]_vars

\* an Abort has just rolled back a frame whose env and labels had moved on
\* since the Speculate, and a further Speculate is still unmatched
C1_Witness ==
  /\ last.step = "instr" /\ last.action = "abort"
  /\ status = "running"
  /\ stack[1].specparent # <<>>
  /\ stack[1].curlabel # NullLabel
  /\ stack[1].env["x"] = IntV(1)

\* C2: in every frame specparent is non-null exactly when some Speculate of
\* the frame has not yet been matched by a Commit or an Abort.
C2_SpecparentIffUnmatched ==
  \A k \in 1..Len(stack) : (stack[k].specparent # <<>>) <=> (snaps[k] # <<>>)

InSync ==
  /\ (status = "error") <=> shadow.err
  /\ status = "running" =>
       /\ FrameView(stack[1]) =
            [env |-> shadow.env, lastlabel |-> shadow.lastlabel,
             curlabel |-> shadow.curlabel]
       /\ shadow.phase = "done" => stack[1].specparent = <<>>

C4_ICountIsDispatched ==
  /\ stack[1].icount = dispatched
  /\ \A k \in 1..Len(stack) : stack[k].icount <= dispatched

\* main runs again after a callee that executed instructions has returned
C4_Witness ==
  /\ last.step = "instr" /\ last.action = "end"
  /\ status = "running"
  /\ stack[1].func.name = "main"
  /\ stack[1].icount >= 4

----------------------------------------------------------------------------
(* Claims on phi nodes (SpecPhi) *)

IsPhiStep ==
  /\ last'.step = "instr"
  /\ last'.instr.op = "phi"
  /\ stack[1].lastlabel # NullLabel

\* lastlabel is the label crossed just before the current one
CrossedBefore ==
  /\ Len(Head(trail[1])) = 2
  /\ stack[1].lastlabel = Head(trail[1])[1]
  /\ stack[1].curlabel = Head(trail[1])[2]

PhiTakes(i) ==
  /\ i <= Len(last'.instr.args)
  /\ status' = "running"
  /\ stack'[1].env =
       [stack[1].env EXCEPT
          ![last'.instr.dest] = stack[1].env[last'.instr.args[i]]]

\* C5 as stated: a phi executed with lastlabel = L, the label crossed just
\* before the current one, binds its destination to the value of args[i]
\* (unbinds it when args[i] is unbound) for every index i at which L occurs
\* in its labels.
C5_PhiSelects ==
  [][IsPhiStep =>
       /\ CrossedBefore
       /\ \A i \in 1..Len(last'.instr.labels) :
            last'.instr.labels[i] = stack[1].lastlabel => PhiTakes(i)]_vars

\* C5 amended: a phi with as many labels as args, executed with
\* lastlabel = L, the label crossed just before the current one (crossings
\* rolled back by an Abort not counted), binds its destination to the value
\* of args[i] (unbinds it when args[i] is unbound) for the first index i at
\* which L occurs in its labels, and changes nothing else of the env.
C5_PhiSelectsFirst ==
  [][(IsPhiStep /\ Len(last'.instr.labels) = Len(last'.instr.args)) =>
       /\ CrossedBefore
       /\ \A i \in 1..Len(last'.instr.labels) :
            (/\ last'.instr.labels[i] = stack[1].lastlabel
             /\ \A j \in 1..(i - 1) :
                  last'.instr.labels[j] # stack[1].lastlabel)
            => PhiTakes(i)]_vars

\* a phi has just taken its second argument: the one bound to 1, for the
\* label crossed before the current one, the second of its labels
C5_Witness ==
  /\ last.step = "instr" /\ last.instr.op = "phi"
  /\ last.instr.labels = <<"b", "a">>
  /\ last.instr.args = <<"x", "y">>
  /\ status = "running"
  /\ stack[1].lastlabel = "a"
  /\ stack[1].curlabel = "b"
  /\ stack[1].env["x"] = IntV(1)
  /\ stack[1].env["y"] = IntV(1)

----------------------------------------------------------------------------
(* Claims on the heap (SpecHeap) *)

IsStep(op) == last'.step = "instr" /\ last'.instr.op = op

\* the value bound, before the step, to argument k of its instruction
ArgBefore(k) == stack[1].env[last'.instr.args[k]]

PtrBefore == ArgBefore(1).loc

ThroughLive ==
  /\ hasLoc(ArgBefore(1))
  /\ PtrBefore.base \in DOMAIN heap.storage

\* the offset is one of the n slots asked for at the alloc of the base
InRange(loc) ==
  /\ 0 <= loc.offset
  /\ loc.offset < mem.sizes[loc.base + 1]

OutOfBounds ==
  /\ status' = "error"
  /\ err' = error("Uninitialized heap location and/or illegal offset")
  /\ heap' = heap

\* C6: after alloc n and ptradd by k, a write and a read through the
\* Pointer succeed exactly when 0 <= k < n, while the allocation is live;
\* out of range, negative offsets included, they fail and no slot changes.
C6_InRangeIff ==
  [][/\ (IsStep("alloc") /\ status' = "running") =>
          /\ stack'[1].env[last'.instr.dest].loc.offset = 0
          /\ Len(heap'.storage[stack'[1].env[last'.instr.dest].loc.base])
               = ArgBefore(1).v
     /\ (IsStep("ptradd") /\ status' = "running") =>
          /\ stack'[1].env[last'.instr.dest].loc.base = PtrBefore.base
          /\ stack'[1].env[last'.instr.dest].loc.offset
               = PtrBefore.offset + ArgBefore(2).v
     /\ (IsStep("store") /\ ThroughLive) =>
          IF InRange(PtrBefore)
          THEN /\ status' = "running"
               /\ heap'.storage[PtrBefore.base][PtrBefore.offset + 1]
                    = ArgBefore(2)
          ELSE OutOfBounds
     /\ (IsStep("load") /\ ThroughLive) =>
          IF InRange(PtrBefore)
          THEN \/ /\ status' = "running"
                  /\ stack'[1].env[last'.instr.dest]
                       = heap.storage[PtrBefore.base][PtrBefore.offset + 1]
               \/ /\ status' = "error"
                  /\ err' = error("Pointer points to uninitialized data")
                  /\ heap.storage[PtrBefore.base][PtrBefore.offset + 1]
                       = Undefined
          ELSE OutOfBounds]_vars

\* a store through alloc 2 advanced by 1 has just written the last slot
C6_Witness ==
  /\ last.step = "instr" /\ last.instr.op = "store"
  /\ status = "running"
  /\ mem.sizes = <<2>>
  /\ stack[1].env[last.instr.args[1]].loc.offset = 1
  /\ heap.storage[0] = <<Undefined, IntV(2)>>

Offsets == -1..2

\* C7: bases are issued in increasing order from 0 and never again, so a
\* read, a write and a free through any Key whose base was freed, or was
\* never allocated, fail, whatever was allocated since.
C7_BasesNeverReused ==
  /\ \A i \in 1..Len(mem.bases) : mem.bases[i] = i - 1
  /\ Len(mem.bases) = heap.count
  /\ DOMAIN heap.storage \subseteq 0..(heap.count - 1)
  /\ mem.freed \cap DOMAIN heap.storage = {}
  /\ \A b \in mem.freed \cup {-1, heap.count, heap.count + 1} :
       \A o \in Offsets :
         /\ Heap_read(heap, Key(b, o, 0)).err.thrown
         /\ Heap_write(heap, Key(b, o, 0), IntV(0)).err.thrown
         /\ Heap_write(heap, Key(b, o, 0), IntV(0)).heap = heap
         /\ Heap_free(heap, Key(b, o, 0)).err.thrown
         /\ Heap_free(heap, Key(b, o, 0)).heap = heap

\* an access through the Pointer of a freed allocation has just failed,
\* after an alloc that followed the free
C7_Witness ==
  /\ last.step = "instr" /\ last.instr.op \in {"load", "store", "free"}
  /\ status = "error"
  /\ hasLoc(stack[1].env[last.instr.args[1]])
  /\ stack[1].env[last.instr.args[1]].loc.base = 0
  /\ mem.freed = {0}
  /\ DOMAIN heap.storage = {1}
  /\ funcs[1].instrs[2].instr.op = "free"
  /\ funcs[1].instrs[3].instr.op = "alloc"

SameButSlot(h1, h2, loc) ==
  /\ h2.count = h1.count
  /\ DOMAIN h2.storage = DOMAIN h1.storage
  /\ \A b \in DOMAIN h1.storage :
       /\ Len(h2.storage[b]) = Len(h1.storage[b])
       /\ \A j \in 1..Len(h1.storage[b]) :
            (b # loc.base \/ j # loc.offset + 1)
            => h2.storage[b][j] = h1.storage[b][j]

\* C8: a store p v that succeeds changes no slot but the one p points to,
\* and a load p that follows it immediately binds its destination to v.
C8_StoreLoadRoundTrip ==
  [][/\ (IsStep("store") /\ status' = "running") =>
          SameButSlot(heap, heap', PtrBefore)
     /\ (/\ IsStep("load")
         /\ last.step = "instr" /\ last.instr.op = "store"
         /\ last.instr.args[1] = last'.instr.args[1])
        => /\ status' = "running"
           /\ stack'[1].env[last'.instr.dest] = stack[1].env[last.instr.args[2]]
           /\ heap' = heap]_vars

\* a load has just read back, through a Pointer advanced by 1, the value
\* the store before it wrote, next to a second allocation
C8_Witness ==
  /\ last.step = "instr" /\ last.instr.op = "load"
  /\ status = "running"
  /\ stack[1].env[last.instr.args[1]].loc.offset = 1
  /\ stack[1].env["x"] = stack[1].env["n"]
  /\ stack[1].i >= 2
  /\ funcs[1].instrs[stack[1].i - 1].instr.op = "store"
  /\ heap.count = 2

----------------------------------------------------------------------------
(* Claims on the end of the run (SpecGC) *)

Unreleased == {mem.bases[i] : i \in 1..Len(mem.bases)} \ mem.released

MemoryResidual ==
  error("Some memory locations have not been freed by end of execution.")

\* C9: the run completes only with no allocation left in the heap after
\* main has returned (and the sweep of -gc is done); without -gc, an
\* allocation that no free instruction was executed on makes the run end
\* with the memory-residual error.
C9_CompletesOnlyIfHeapEmpty ==
  /\ status = "done" =>
       /\ DOMAIN heap.storage = {}
       /\ opts.gcenabled \/ Unreleased = {}
  /\ (last.step = "check" /\ DOMAIN heap.storage # {}) =>
       (status = "error" /\ err = MemoryResidual)
  /\ (last.step = "check" /\ ~opts.gcenabled /\ Unreleased # {}) =>
       (status = "error" /\ err = MemoryResidual)

\* without -gc and -df, main has returned having freed one of its two
\* allocations, and the run has ended with the memory-residual error
C9_Witness ==
  /\ last.step = "check"
  /\ ~opts.gcenabled /\ ~opts.disablefree
  /\ status = "error" /\ err = MemoryResidual
  /\ heap.count = 2
  /\ Cardinality(mem.released) = 1
  /\ Cardinality(DOMAIN heap.storage) = 1

\* C10: with -gc on, once main has returned the sweep ends without error
\* and leaves the heap empty.
C10_SweepLeavesHeapEmpty ==
  (opts.gcenabled /\ last.step = "clean") =>
    (status = "swept" /\ DOMAIN heap.storage = {})

----------------------------------------------------------------------------
(* Claims on types and arithmetic (SpecArith) *)

\* the step has bound the destination of an instruction that declares a type
BindsTyped ==
  /\ last'.step = "instr"
  /\ status' = "running"
  /\ Len(stack') = Len(stack)
  /\ last'.instr.dest # NoDest
  /\ typeKnown(last'.instr.type)
  /\ stack'[1].env[last'.instr.dest] # Undefined
  /\ stack'[1].env[last'.instr.dest] # stack[1].env[last'.instr.dest]

\* C11: whenever an instruction that declares a type binds its destination,
\* the value bound satisfies typeCheck against that type.
C11_BoundValueHasDeclaredType ==
  [][BindsTyped =>
       typeCheck(stack'[1].env[last'.instr.dest], last'.instr.type)]_vars

IsInt(val) == val.t = "bigint" /\ val.v \in MinInt..MaxInt

\* r is m wrapped to the width of an Int
WrapOf(r, m) == r \in MinInt..MaxInt /\ (r - m) % (2 ^ IntBits) = 0

\* q is the quotient of a by b, rounded towards zero
QuotOf(q, a, b) ==
  /\ (IF a - q * b < 0 THEN q * b - a ELSE a - q * b) < (IF b < 0 THEN -b ELSE b)
  /\ a - q * b # 0 => ((a - q * b < 0) = (a < 0))

\* C12: on Ints x and y, add, sub, mul and (for y # 0) div bind the
\* destination to the mathematical result wrapped to the width of an Int:
\* the result lies in MinInt..MaxInt and differs from the exact result by a
\* multiple of 2^IntBits (from the exact quotient only for MinInt div -1).
C12_ArithWraps ==
  [][\A op \in {"add", "sub", "mul", "div"} :
       (/\ IsStep(op)
        /\ IsInt(ArgBefore(1)) /\ IsInt(ArgBefore(2))
        /\ op = "div" => ArgBefore(2).v # 0) =>
         /\ status' = "running"
         /\ stack'[1].env[last'.instr.dest].t = "bigint"
         /\ \E r \in {stack'[1].env[last'.instr.dest].v} :
              CASE op = "add" -> WrapOf(r, ArgBefore(1).v + ArgBefore(2).v)
                [] op = "sub" -> WrapOf(r, ArgBefore(1).v - ArgBefore(2).v)
                [] op = "mul" -> WrapOf(r, ArgBefore(1).v * ArgBefore(2).v)
                [] op = "div" ->
                     IF ArgBefore(1).v = MinInt /\ ArgBefore(2).v = -1
                     THEN r = MinInt
                     ELSE QuotOf(r, ArgBefore(1).v, ArgBefore(2).v)]_vars

\* the first instruction was add x x y with y = 1 and has left x = MinInt:
\* x was MaxInt, and MaxInt + 1 has wrapped
C12_Witness ==
  /\ dispatched = 1 /\ status = "running"
  /\ last.step = "instr" /\ last.instr.op = "add"
  /\ stack[1].env["y"] = IntV(1)
  /\ stack[1].env["x"] = IntV(MinInt)

----------------------------------------------------------------------------
(* Claims on calls, errors and the tracer (SpecTrace, SpecArith) *)

\* C13: while specparent is non-null, a call or ret raises an error, and
\* no frame has been created, no env binding changed and no call count of
\* the tracer incremented.
C13_NoCallInSpeculation ==
  [][(/\ last'.step = "instr"
      /\ last'.instr.op \in {"call", "ret"}
      /\ stack[1].specparent # <<>>) =>
        /\ status' = "error"
        /\ err' = error(IF last'.instr.op = "call"
                        THEN "call not allowed during speculation"
                        ELSE "ret not allowed during speculation")
        /\ Len(stack') = Len(stack)
        /\ \A k \in DOMAIN stack : stack'[k].env = stack[k].env
        /\ tracer'.functionCalls = tracer.functionCalls]_vars

\* with -tr, after a counted call of f, main has speculated and its next
\* call has been refused
C13_Witness ==
  /\ opts.tracerenabled
  /\ status = "error"
  /\ last.step = "instr" /\ last.instr.op = "call"
  /\ stack[1].specparent # <<>>
  /\ Len(stack) = 1
  /\ tracer.functionCalls["f"] = 1

\* the step makes evalFunc of a callee return to evalCall of its caller
Returns ==
  /\ Len(stack) > 1
  /\ \/ last'.step = "falloff"
     \/ /\ last'.step = "instr" /\ last'.instr.op = "ret"
        /\ Len(last'.instr.args) = 1 =>
             stack[1].env[last'.instr.args[1]] # Undefined

\* the value returned
RetVal ==
  IF last'.step = "falloff" \/ Len(last'.instr.args) = 0 THEN Null
  ELSE stack[1].env[last'.instr.args[1]]

\* the call being returned from, and its callee
TheCall == stack[1].instr
Callee == stack[1].func

ValueCallOK ==
  /\ TheCall.dest # NoDest
  /\ TheCall.type # NoType
  /\ Callee.type # NoType
  /\ RetVal # Null
  /\ typeCheck(RetVal, TheCall.type)
  /\ TheCall.type = Callee.type

EffectCallOK ==
  /\ TheCall.dest = NoDest
  /\ RetVal = Null
  /\ Callee.type = NoType

\* C14: a value-shaped call binds its destination exactly when the callee
\* declares a return type, the returned value is non-null and satisfies
\* typeCheck against the call's type, and the two declared types are equal;
\* an effect-shaped call succeeds exactly when the callee returns null and
\* declares no return type; otherwise an error is raised and the caller's
\* env is as it was.
C14_CallResultTyping ==
  [][Returns =>
       IF ValueCallOK
       THEN /\ status' = "running"
            /\ stack'[1].env = envSet(stack[2].env, TheCall.dest, RetVal)
       ELSE IF EffectCallOK
       THEN status' = "running" /\ stack'[1].env = stack[2].env
       ELSE /\ status' = "error" /\ err'.thrown /\ err'.brili
            /\ stack'[1].env = stack[2].env]_vars

\* f, declared to return ptr<int>, has returned its allocation to the call
\* r: ptr<int> = call f, and r is bound in main
C14_Witness ==
  /\ status = "running" /\ Len(stack) = 1
  /\ last.step = "instr" /\ last.instr.op = "ret"
  /\ findFunc("f", funcs).func.type = TPtr(TInt)
  /\ hasLoc(stack[1].env["r"])

\* C15: every error ends the process, through main's catch, with exit
\* code 2 as a reported interpreter error, never as an uncaught failure.
C15_ErrorsExitWithCode2 ==
  (last.step = "exit" /\ err.thrown) =>
    (last.exit.code = 2 /\ ~last.exit.uncaught)

\* the same run without -tr: its options and its Tracer, which stays as
\* constructed
Untraced == [opts EXCEPT !.tracerenabled = FALSE]
UntracedShared == [Shared EXCEPT !.tracer = NewTracer]

\* the step has gone where post, the step of the run without -tr, goes:
\* same frames (env, labels, icount, cursor), heap, counts, output, and
\* same end
SameAs(post) ==
  /\ stack' = Linked(post.stack, funcs')
  /\ heap' = post.sh.heap
  /\ gc' = post.sh.gc
  /\ nkeys' = post.sh.nkeys
  /\ out' = post.sh.out
  /\ status' = post.status
  /\ err' = post.err
  /\ post.sh.tracer = NewTracer

\* C16: the tracer is recording-only. From every state of a run with -tr,
\* each step goes where the step of the run without -tr goes from the same
\* env, heap, labels and icount; so the two runs, which start alike, go
\* through the same states, print the same lines and end alike.
C16_TracerRecordingOnly ==
  [][/\ last'.step = "instr" =>
          SameAs(stepOn(last'.instr, stack, UntracedShared, Untraced))
     /\ last'.step = "falloff" =>
          SameAs(implicitReturnOn(stack, UntracedShared, Untraced))]_vars

\* with -tr a trace is active, instructions have been logged and a line
\* has been printed
C16_Witness ==
  /\ opts.tracerenabled
  /\ last.step = "instr" /\ last.instr.op = "print"
  /\ tracer.active
  /\ "f" \in DOMAIN tracer.trace /\ Len(tracer.trace["f"]) > 1
  /\ Len(out) > 0

\* the log kept under the function name, empty when there is none
LogOf(tr, name) == IF name \in DOMAIN tr.trace THEN tr.trace[name] ELSE <<>>

\* C17: a trace is activated only when the call count of the function
\* reaches hotLimit while no trace is active; while a trace is active no
\* call starts another trace, changes the function being traced, or
\* replaces or resets its log.
C17_NoActivationWhileActive ==
  [][/\ (~tracer.active /\ tracer'.active) =>
          tracer'.functionCalls[tracer'.nowTracing] = hotLimit
     /\ (tracer.active /\ last'.step = "instr" /\ last'.instr.op = "call") =>
          /\ tracer'.nowTracing = tracer.nowTracing
          /\ DOMAIN tracer'.trace = DOMAIN tracer.trace
          /\ \A name \in DOMAIN tracer.trace :
               Len(tracer'.trace[name]) >= Len(tracer.trace[name])]_vars

\* the step makes the frame of the function being traced return
TracedReturns ==
  /\ Len(stack') < Len(stack)
  /\ stack[1].func.name = tracer.nowTracing

\* C18: an active trace of F stays active until the call of F that started
\* it returns; every instruction executed in between is appended to the log
\* of F; at that return, and only then, tracing is deactivated and F, and
\* no other function, is marked fully traced.
C18_TraceLastsUntilReturn ==
  [][tracer.active =>
       IF TracedReturns
       THEN /\ ~tracer'.active
            /\ tracer'.traced = tracer.traced \cup {tracer.nowTracing}
       ELSE /\ tracer'.active
            /\ tracer'.traced = tracer.traced
            /\ last'.step = "instr" =>
                 LogOf(tracer', tracer.nowTracing)
                   = Append(LogOf(tracer, tracer.nowTracing), last'.instr)]_vars

\* main, as far as it has run, is calls of f only
MainCallsF ==
  \A k \in DOMAIN funcs[1].instrs :
    "instr" \in DOMAIN funcs[1].instrs[k] =>
      funcs[1].instrs[k].instr = CallOp(NoDest, NoType, "f", <<>>)

\* the calls main has started, and those that have returned
CallsReturned == stack[Len(stack)].i
CallsStarted == CallsReturned + (IF Len(stack) > 1 THEN 1 ELSE 0)

\* C19: with -tr, when main calls f six times, the trace map has no
\* non-empty log keyed by f before the sixth call starts and has one after
\* it returns.
C19_SixthCallProducesTrace ==
  (opts.tracerenabled /\ MainCallsF /\ status = "running") =>
    /\ CallsStarted < hotLimit + 1 => LogOf(tracer, "f") = <<>>
    /\ CallsReturned >= hotLimit + 1 => LogOf(tracer, "f") # <<>>

\* f, as far as it has run, makes no call
FCallsNone ==
  \A k \in DOMAIN funcs[2].instrs :
    "instr" \in DOMAIN funcs[2].instrs[k] =>
      funcs[2].instrs[k].instr.op # "call"

\* C19 amended: it is the fifth call that produces the trace. There is no
\* log keyed by f before the fifth call starts and a non-empty one when it
\* has returned; when f makes no call, f is then marked fully traced and the
\* log is still there during and after the sixth call.
C19_FifthCallProducesTrace ==
  (opts.tracerenabled /\ MainCallsF /\ status = "running") =>
    /\ CallsStarted < hotLimit => "f" \notin DOMAIN tracer.trace
    /\ (CallsReturned = hotLimit /\ Len(stack) = 1) =>
         LogOf(tracer, "f") # <<>>
    /\ (CallsReturned >= hotLimit /\ FCallsNone) =>
         (LogOf(tracer, "f") # <<>> /\ "f" \in tracer.traced)

\* the fifth of main's calls of f has returned, the sixth has not started,
\* and the log of f holds the instructions of the fifth call
C19_Witness ==
  /\ opts.tracerenabled /\ MainCallsF /\ status = "running"
  /\ Len(stack) = 1
  /\ CallsReturned = hotLimit
  /\ Len(LogOf(tracer, "f")) = 2
  /\ tracer.traced = {"f"}

----------------------------------------------------------------------------
(* Claim on phi without a last label (SpecPhi) *)

\* C20: a phi executed while lastlabel is null, or is not in the phi's
\* labels, unbinds its destination and execution continues with the next
\* instruction, without an error.
C20_PhiUnbindsWithoutLabel ==
  [][(/\ last'.step = "instr" /\ last'.instr.op = "phi"
      /\ Len(last'.instr.labels) = Len(last'.instr.args)
      /\ \/ stack[1].lastlabel = NullLabel
         \/ \A k \in DOMAIN last'.instr.labels :
              last'.instr.labels[k] # stack[1].lastlabel) =>
        /\ status' = "running"
        /\ stack'[1].env = envDelete(stack[1].env, last'.instr.dest)
        /\ stack'[1].i = stack[1].i + 1]_vars

----------------------------------------------------------------------------
(* Claim on the move to a label (SpecLabel) *)

\* the step is an instruction whose action carries a label: a jmp, a br on
\* a bool, or a guard that fails inside speculation
CarriesLabel ==
  /\ last'.step = "instr"
  /\ \/ last'.instr.op = "jmp"
     \/ last'.instr.op = "br" /\ stack[1].env[last'.instr.args[1]].t = "boolean"
     \/ /\ last'.instr.op = "guard"
        /\ stack[1].env[last'.instr.args[1]] = BoolV(FALSE)
        /\ stack[1].specparent # <<>>

\* the label the action carries
Target ==
  IF last'.instr.op = "br" /\ ~stack[1].env[last'.instr.args[1]].v
  THEN last'.instr.labels[2]
  ELSE last'.instr.labels[1]

\* the last step was an instruction that moved the cursor to a label
Moved ==
  /\ status = "running"
  /\ last.step = "instr"
  /\ last.action \in {"jump", "abort"}

\* C21: after an action carrying label L, if the function has a Label named
\* L the next item processed is the first Label item named L, which makes
\* curlabel L and lastlabel the curlabel in force before; if it has none, an
\* error is raised and no further instruction executes.
C21_MoveToFirstLabel ==
  [][/\ CarriesLabel =>
          IF HasLabel(stack[1].func.instrs, Target)
          THEN /\ status' = "running"
               /\ last'.action \in {"jump", "abort"}
               /\ FirstLabelAt(stack[1].func.instrs, Target, stack'[1].i)
          ELSE /\ status' = "error"
               /\ err' = error("label not found")
     /\ Moved =>
          /\ last'.step = "label"
          /\ stack'[1].curlabel = stack[1].func.instrs[stack[1].i + 1].label
          /\ stack'[1].lastlabel = stack[1].curlabel
          /\ stack'[1].i = stack[1].i + 1
     /\ status = "error" => last'.step = "exit"]_vars

\* a jump back from after the first Label a has been followed by the
\* crossing of the first of the two Labels named a
C21_Witness ==
  /\ last.step = "label"
  /\ stack[1].i = 2
  /\ stack[1].curlabel = "a"
  /\ stack[1].lastlabel = "a"
  /\ dispatched >= 2

----------------------------------------------------------------------------
(* Claims on the reference counter (SpecRc, SpecGC) *)

\* the identifiers of the running frame bound to a Pointer with this Key
BoundTo(key) ==
  {id \in Idents : hasLoc(stack[1].env[id]) /\ stack[1].env[id].loc = key}

\* an entry whose key is undefined tracks no Key
CountsMatch ==
  \A k \in 1..Len(gc) :
    gc[k].key # Undefined => gc[k].count = Cardinality(BoundTo(gc[k].key))

\* C22: with -gc on, after any sequence of instructions the count of each
\* tracked Key is the number of identifiers bound to a Pointer with that Key.
C22_CountsAreBindings ==
  (opts.gcenabled /\ status \in {"running", "returned"}) => CountsMatch

\* the instructions run so far are alloc and id
OnlyAllocAndId ==
  \A k \in DOMAIN funcs[1].instrs :
    "instr" \in DOMAIN funcs[1].instrs[k] =>
      funcs[1].instrs[k].instr.op \in {"alloc", "id"}

\* C22 amended: the same after any sequence of alloc and id run in one frame.
C22_CountsAreBindingsAllocId ==
  (/\ opts.gcenabled /\ status \in {"running", "returned"}
   /\ OnlyAllocAndId) => CountsMatch

\* after alloc and id only, p and q are bound to the same Key,
\* which is counted twice
C22_Witness ==
  /\ opts.gcenabled /\ status = "running" /\ OnlyAllocAndId
  /\ hasLoc(stack[1].env["p"])
  /\ stack[1].env["q"] = stack[1].env["p"]
  /\ Len(gc) = 1 /\ gc[1].count = 2
  /\ dispatched >= 3

\* C23: with -gc on, an id whose source value is not a Pointer only binds
\* the destination: no count changes, no entry is added to the counter and
\* no allocation is freed, even when the destination was bound to a Pointer.
C23_IdOfNonPointerOnlyBinds ==
  [][(opts.gcenabled /\ IsStep("id") /\ ~hasLoc(ArgBefore(1)))
       => (gc' = gc /\ heap' = heap)]_vars

\* C23, the case of a destination bound to a Pointer: its allocation stays
C23_IdOfNonPointerKeepsAllocation ==
  [][(/\ opts.gcenabled /\ IsStep("id") /\ ~hasLoc(ArgBefore(1))
      /\ hasLoc(stack[1].env[last'.instr.dest]))
       => heap'.storage = heap.storage]_vars

\* the counter has an entry for a Key with these fields
Tracks(rc, b, o) ==
  \E k \in 1..Len(rc) :
    /\ rc[k].key # Undefined
    /\ rc[k].key.base = b
    /\ rc[k].key.offset = o

\* C24: with -gc on and without -df, after a successful free of a Pointer
\* whose Key is (b, 0) the counter holds no entry for a Key with fields
\* (b, 0), however the Pointer was obtained.
C24_FreeForgetsKey ==
  [][(/\ opts.gcenabled /\ ~opts.disablefree
      /\ IsStep("free") /\ status' = "running"
      /\ hasLoc(ArgBefore(1)) /\ PtrBefore.offset = 0)
       => ~Tracks(gc', PtrBefore.base, 0)]_vars

----------------------------------------------------------------------------
(* Claims on the frame of a call (SpecFrame) *)

\* the frame-local fields of a frame
Locals(fr) ==
  [env |-> fr.env, lastlabel |-> fr.lastlabel, curlabel |-> fr.curlabel,
   specparent |-> fr.specparent]

\* the env of exactly the formal parameters bound to the values the caller's
\* env gives the actual arguments
ParamsOnly(func, instr, env) ==
  [id \in Idents |->
     IF \E k \in 1..Len(func.args) : func.args[k].name = id
     THEN env[instr.args[CHOOSE k \in 1..Len(func.args) :
                            func.args[k].name = id]]
     ELSE Undefined]

\* the step enters the callee of a call
Enters == IsStep("call") /\ Len(stack') > Len(stack)

\* the step makes evalCall of the caller go on after its callee
Resumes == Len(stack') < Len(stack)

\* C25: a call runs the callee in a fresh env of exactly the parameters bound
\* to the argument values, with lastlabel, curlabel and specparent null; on
\* return the caller's env is unchanged except for the call's destination
\* and its lastlabel, curlabel and specparent are unchanged; what the callee
\* did to the heap and the reference counter is there for the caller.
C25_CallFrame ==
  [][
     /\ Enters =>
         (/\ Locals(stack'[1]) =
               [env |-> ParamsOnly(stack'[1].func, last'.instr, stack[1].env),
                lastlabel |-> NullLabel, curlabel |-> NullLabel,
                specparent |-> <<>>]
          /\ Locals(stack'[2]) = Locals(stack[1])
          /\ heap' = heap /\ gc' = gc)
     /\ (Len(stack') = Len(stack) /\ Len(stack) > 1) =>
         (Locals(stack'[2]) = Locals(stack[2]))
     /\ Resumes =>
         (/\ Locals(stack'[1]) =
               [Locals(stack[2]) EXCEPT
                  !.env = IF status' = "running" /\ TheCall.dest # NoDest
                          THEN envSet(@, TheCall.dest, RetVal)
                          ELSE @]
          /\ heap' = heap /\ gc' = gc /\ tracer' = tracer)
  ]_vars

\* main, past its labels a and b with x = 2, is back from r = f(x): f bound x
\* and r in its own env, crossed its label d and allocated
C25_Witness ==
  /\ status = "running" /\ Len(stack) = 1
  /\ last.step = "instr" /\ last.instr.op = "ret"
  /\ stack[1].env["x"] = IntV(2)
  /\ stack[1].env["r"] = IntV(7)
  /\ stack[1].env["p"] = Undefined
  /\ stack[1].curlabel = "b" /\ stack[1].lastlabel = "a"
  /\ DOMAIN heap.storage # {}
  /\ dispatched >= 5

----------------------------------------------------------------------------
(* Claims on what an Abort leaves alone (SpecAbort) *)

\* the step is the Abort of a guard that failed during speculation
Aborts ==
  /\ last'.step = "instr"
  /\ last'.action = "abort"
  /\ stack[1].specparent # <<>>

\* every log of tr is there in post, with at most more appended to it
LogsKept(tr, post) ==
  /\ DOMAIN tr.trace \subseteq DOMAIN post.trace
  /\ \A name \in DOMAIN tr.trace :
       /\ Len(post.trace[name]) >= Len(tr.trace[name])
       /\ SubSeq(post.trace[name], 1, Len(tr.trace[name])) = tr.trace[name]

\* C26: an Abort rolls back only frame-local fields: the heap, the
\* reference counter and the logs of the tracer are after the Abort what
\* the instructions run since the Speculate made them; only the guard
\* itself is appended to the log being recorded.
C26_AbortKeepsShared ==
  [][Aborts =>
       /\ heap' = heap
       /\ gc' = gc
       /\ LogsKept(tracer, tracer')
       /\ tracer'.active = tracer.active
       /\ tracer'.nowTracing = tracer.nowTracing
       /\ tracer'.traced = tracer.traced
       /\ tracer'.functionCalls = tracer.functionCalls
       /\ stack'[1].env = Head(stack[1].specparent).env]_vars

\* the traced call of f = speculate; q = id p; guard c a has aborted: q is
\* unbound again, the count of p's Key has the references of the five
\* copies, and the log of f has the three instructions
C26_Witness ==
  /\ status = "running" /\ Len(stack) = 2
  /\ last.step = "instr" /\ last.action = "abort"
  /\ opts.gcenabled
  /\ tracer.active /\ tracer.nowTracing = "f"
  /\ Len(LogOf(tracer, "f")) = 3
  /\ LogOf(tracer, "f")[2].op = "id"
  /\ stack[1].env["q"] = Undefined
  /\ stack[1].specparent = <<>>
  /\ Len(gc) = 1 /\ gc[1].count > 1
  /\ DOMAIN heap.storage # {}

----------------------------------------------------------------------------
(* Claims on what the reference counter frees (SpecRc) *)

\* C27: with -gc on, an alloc or id frees no allocation that an identifier
\* of the running frame is bound to a Pointer into once the assignment is
\* done; so after alloc and id instructions every Pointer bound in env
\* refers to a live allocation.
C27_BoundPointersAreLive ==
  [][(/\ opts.gcenabled
      /\ last'.step = "instr" /\ last'.instr.op \in {"alloc", "id"}
      /\ status' = "running")
       => \A id \in Idents :
            (/\ hasLoc(stack'[1].env[id])
             /\ stack'[1].env[id].loc.base \in DOMAIN heap.storage)
              => stack'[1].env[id].loc.base \in DOMAIN heap'.storage]_vars

============================================================================
